---- MODULE Spec2Model ----
(***************************************************************************)
(* A model of SLADE's text-editor lexer (src/TextEditor/Lexer.cpp): the    *)
(* styling pass Lexer::doStyling with its seven process* steps, the word   *)
(* table built by Lexer::loadLanguage, and the per-line records lines_.    *)
(* Characters are one-character strings, texts and tokens are sequences of *)
(* characters, positions are 0-based as in the editor.                     *)
(***************************************************************************)
EXTENDS Integers, Sequences, FiniteSets, TLC

VARIABLES
    text,               \* the editor's buffer (TextEditorCtrl), a sequence of characters
    styles,             \* the editor's style of every character of the buffer
    language_,          \* Lexer::language_ (NullLanguage = nullptr)
    word_list_,         \* Lexer::word_list_ : token -> WordDef.style
    preprocessor_char_, \* Lexer::preprocessor_char_
    lines_,             \* Lexer::lines_ : line -> [comment_idx, fold_increment, has_word]
    curr_comment_idx_,  \* Lexer::curr_comment_idx_
    fold_comments_,     \* Lexer::fold_comments_
    fold_preprocessor_, \* Lexer::fold_preprocessor_
    call,               \* the last doStyling call: its arguments, the lines_ it found, what it emitted and
                        \* returned, and (before) the line, result and comment index of the call before it
    phase,              \* the caller: "pass" (styling line after line), "restyle" (after an edit), "done"
    cursor,             \* the caller: the next line to hand to doStyling
    passed,             \* the caller: what doStyling returned for each line of the pass so far
    zscript,            \* the lexer is a ZScriptLexer
    functions_,         \* ZScriptLexer::functions_
    fold_levels,        \* the editor's fold level of every line: [level, header]
    folding,            \* the last updateFolding call: its argument, the level it read, its SetFoldLevel calls
    query               \* the last isFunction call: its arguments and what it returned

\* the members of ZScriptLexer, and what updateFolding writes
zsVars == <<zscript, functions_>>
foldVars == <<fold_levels, folding>>

vars == <<text, styles, language_, word_list_, preprocessor_char_, lines_,
          curr_comment_idx_, fold_comments_, fold_preprocessor_, call,
          phase, cursor, passed, zscript, functions_, fold_levels, folding,
          query>>

----------------------------------------------------------------------------
(* Characters *)

NUL == "NUL"        \* what GetCharAt gives outside the buffer, and (char)0
DQUOTE == "\""
SQUOTE == "'"
NL == "\n"

UpperChars == <<"A","B","C","D","E","F","G","H","I","J","K","L","M",
                "N","O","P","Q","R","S","T","U","V","W","X","Y","Z">>
LowerChars == <<"a","b","c","d","e","f","g","h","i","j","k","l","m",
                "n","o","p","q","r","s","t","u","v","w","x","y","z">>
Digits == {"0","1","2","3","4","5","6","7","8","9"}
HexDigits == Digits \cup {"a","b","c","d","e","f","A","B","C","D","E","F"}

whitespace_chars_ == {" ", NL, "\r", "\t"}
word_chars_ == {UpperChars[i] : i \in 1..26} \cup {LowerChars[i] : i \in 1..26}
                 \cup Digits \cup {"_"}
operator_chars_ == {"+", "-", "*", "/", "=", ">", "<", "|", "~", "&", "!"}

lowerChar(c) ==
    IF \E i \in 1..26 : UpperChars[i] = c
    THEN LowerChars[CHOOSE i \in 1..26 : UpperChars[i] = c]
    ELSE c

lower(word) == [i \in 1..Len(word) |-> lowerChar(word[i])]

startsWith(str, check) ==
    /\ Len(check) <= Len(str)
    /\ \A i \in 1..Len(check) : str[i] = check[i]

SeqToSet(s) == {s[i] : i \in 1..Len(s)}

Min(S) == CHOOSE x \in S : \A y \in S : x <= y

----------------------------------------------------------------------------
(* Numbers: the forms of re_int1_, re_int2_, re_int3_ and re_float_ *)

AllIn(word, from, to, S) == \A i \in from..to : word[i] \in S

isInteger(word) ==
    LET n == Len(word)
        signed == n >= 1 /\ word[1] \in {"+", "-"}
        first == IF signed THEN 2 ELSE 1
    IN  \/ n >= first /\ AllIn(word, first, n, Digits)
        \/ n >= 2 /\ word[1] = "0" /\ AllIn(word, 2, n, Digits)
        \/ n >= 3 /\ word[1] = "0" /\ word[2] = "x" /\ AllIn(word, 3, n, HexDigits)

\* digits at from..to, at least one
DigitRun(word, from, to) == from <= to /\ AllIn(word, from, to, Digits)

\* [0-9]*.?[0-9]+ at from..to ('.' of the expression stands for any character)
Mantissa(word, from, to) ==
    \/ DigitRun(word, from, to)
    \/ \E k \in from..(to - 1) :
          /\ AllIn(word, from, k - 1, Digits)
          /\ DigitRun(word, k + 1, to)

\* [eE][-+]?[0-9]+ at from..to
Exponent(word, from, to) ==
    /\ from <= to
    /\ word[from] \in {"e", "E"}
    /\ \/ DigitRun(word, from + 1, to)
       \/ from + 1 <= to /\ word[from + 1] \in {"+", "-"} /\ DigitRun(word, from + 2, to)

isFloat(word) ==
    LET n == Len(word)
        signed == n >= 1 /\ word[1] \in {"+", "-"}
        first == IF signed THEN 2 ELSE 1
    IN  \/ Mantissa(word, first, n)
        \/ \E k \in first..n : Mantissa(word, first, k - 1) /\ Exponent(word, k, n)

----------------------------------------------------------------------------
(* Language definitions (TextLanguage), as far as the lexer reads them *)

NullLanguage ==
    [null |-> TRUE, caseSensitive |-> TRUE,
     constants |-> <<>>, properties |-> <<>>, functions |-> <<>>,
     types |-> <<>>, keywords |-> <<>>,
     preprocessor |-> <<>>,
     commentBeginL |-> <<>>, commentEndL |-> <<>>,
     docComment |-> <<>>, lineCommentL |-> <<>>,
     blockBegin |-> <<>>, blockEnd |-> <<>>,
     ppBlockBegin |-> <<>>, ppBlockEnd |-> <<>>,
     wordBlockBegin |-> <<>>, wordBlockEnd |-> <<>>]

\* a C-like language with two block-comment pairs
LangC ==
    [NullLanguage EXCEPT
        !.null = FALSE,
        !.keywords = << <<"i", "f">> >>,
        !.preprocessor = <<"#">>,
        !.commentBeginL = << <<"/", "*">>, <<"/", "+">> >>,
        !.commentEndL = << <<"*", "/">>, <<"+", "/">> >>,
        !.docComment = <<"/", "/", "/">>,
        !.lineCommentL = << <<"/", "/">> >>,
        !.blockBegin = <<"{">>,
        !.blockEnd = <<"}">>]

\* the same language without case: its keyword is listed as "If"
LangNoCase ==
    [LangC EXCEPT !.caseSensitive = FALSE, !.keywords = << <<"I", "f">> >>]

\* the word lists the languages of the loading specification are made of
WordLists == {<<>>, << <<"a">> >>, << <<"A">> >>}

\* languages that differ in their word lists and their case rule
LoadLanguages ==
    {[LangC EXCEPT !.caseSensitive = cs, !.constants = c, !.properties = p,
                   !.functions = f, !.types = t, !.keywords = k] :
        cs \in BOOLEAN, c \in WordLists, p \in WordLists, f \in WordLists,
        t \in WordLists, k \in WordLists}

----------------------------------------------------------------------------
(* Styles (Lexer::Style) and FSM states (Lexer::State) *)

NoStyle == "None"       \* WordDef.style = 0
Styles == {"Default", "Comment", "CommentDoc", "String", "Char", "Number",
           "Operator", "Preprocessor", "Keyword", "Function", "Constant",
           "Type", "Property"}

States == {"Unknown", "Word", "Comment", "String", "Char", "Operator", "Whitespace"}

DefaultLine == [comment_idx |-> -1, fold_increment |-> 0, has_word |-> FALSE]

----------------------------------------------------------------------------
(* The editor, as the lexer uses it *)

GetCharAt(txt, pos) == IF pos >= 0 /\ pos < Len(txt) THEN txt[pos + 1] ELSE NUL

LineFromPosition(txt, pos) == Cardinality({i \in 1..Len(txt) : i <= pos /\ txt[i] = NL})

GetLineCount(txt) == Cardinality({i \in 1..Len(txt) : txt[i] = NL}) + 1

\* first position of line l, and its last position (its line break included)
LineStart(txt, l) ==
    IF l = 0 THEN 0
    ELSE Min({p \in 0..Len(txt) : LineFromPosition(txt, p) = l})

LineLast(txt, l) ==
    IF l + 1 < GetLineCount(txt) THEN LineStart(txt, l + 1) - 1 ELSE Len(txt) - 1

\* SetStyling(length, style): one more run at the styling position
SetStyling(m, length, style) == [m EXCEPT !.runs = Append(@, <<length, style>>)]

RECURSIVE StyleRuns(_, _, _)
\* the style bytes after StartStyling(pos) and the SetStyling calls of runs
StyleRuns(sty, pos, runs) ==
    IF runs = <<>> THEN sty
    ELSE LET len == runs[1][1]
             painted == [i \in 1..Len(sty) |->
                            IF i - 1 >= pos /\ i - 1 < pos + len THEN runs[1][2] ELSE sty[i]]
         IN StyleRuns(painted, pos + len, Tail(runs))

----------------------------------------------------------------------------
(* Lexer::checkToken *)

checkToken(txt, pos, token) ==
    /\ token # <<>>
    /\ \A i \in 1..Len(token) : GetCharAt(txt, pos + i - 1) = token[i]

\* the first index of tokens that matches at pos, -1 if none does
checkTokenL(txt, pos, tokens) ==
    LET found == {i \in 1..Len(tokens) : checkToken(txt, pos, tokens[i])}
    IN IF found = {} THEN -1 ELSE Min(found) - 1

----------------------------------------------------------------------------
(* The styling pass.  A machine m holds the LexerState of the call          *)
(* (position, end, line, state, length, fold_increment, has_word), the       *)
(* lexer's members the pass reads and writes (lang, ppc, fc, fp, lines, cci, *)
(* words), the editor's text (txt) and the SetStyling calls made so far      *)
(* (runs).  Every process* step gives the machine after it and its result.   *)

Step(m, done) == [m |-> m, done |-> done]

\* word_list_[word].style : operator[] of the map adds a missing key
wordStyle(words, word) == IF word \in DOMAIN words THEN words[word] ELSE NoStyle

touchWord(words, word) ==
    IF word \in DOMAIN words THEN words
    ELSE [w \in DOMAIN words \cup {word} |-> IF w = word THEN NoStyle ELSE words[w]]

\* a styleWord that looks the word up as written, whatever the language's case rule
styleWord_AsWritten(m, word) ==
    LET looked == [m EXCEPT !.words = touchWord(@, word)]
    IN  IF wordStyle(m.words, word) # NoStyle
        THEN SetStyling(looked, Len(word), wordStyle(m.words, word))
        ELSE IF startsWith(word, m.lang.preprocessor)
        THEN SetStyling(looked, Len(word), "Preprocessor")
        ELSE IF isInteger(word) \/ isFloat(word)
        THEN SetStyling(looked, Len(word), "Number")
        ELSE SetStyling(looked, Len(word), "Default")

\* Lexer::styleWord
styleWord(m, word) ==
    LET word_str == IF m.lang.caseSensitive THEN word ELSE lower(word)
        looked == [m EXCEPT !.words = touchWord(@, word_str)]
    IN  IF wordStyle(m.words, word_str) # NoStyle
        THEN SetStyling(looked, Len(word), wordStyle(m.words, word_str))
        ELSE IF startsWith(word_str, m.lang.preprocessor)
        THEN SetStyling(looked, Len(word), "Preprocessor")
        ELSE IF isInteger(word) \/ isFloat(word)
        THEN SetStyling(looked, Len(word), "Number")
        ELSE SetStyling(looked, Len(word), "Default")

\* a lexer that folds block comments whatever fold_comments_ says
commentFold_Always(m) == 1

\* what a block comment adds to the fold increment where it begins, and takes
\* from it where it ends: if (fold_comments_) in processUnknown and processComment
commentFold(m) == IF m.fc THEN 1 ELSE 0

\* a processUnknown that takes the block tokens the other way round
blockFold_Swapped(m) ==
    IF checkToken(m.txt, m.position, m.lang.blockBegin) THEN -1
    ELSE IF checkToken(m.txt, m.position, m.lang.blockEnd) THEN 1
    ELSE 0

\* what a block-begin or block-end token at the position adds to the fold
\* increment (the last two branches of processUnknown)
blockFold(m) ==
    IF checkToken(m.txt, m.position, m.lang.blockBegin) THEN 1
    ELSE IF checkToken(m.txt, m.position, m.lang.blockEnd) THEN -1
    ELSE 0

RECURSIVE skipWhitespace(_, _, _)
\* the position ZScriptLexer::styleWord looks for '(' at: the first position
\* from index that holds no whitespace, or end if that comes first
skipWhitespace(txt, index, end) ==
    IF index < end /\ GetCharAt(txt, index) \in whitespace_chars_
    THEN skipWhitespace(txt, index + 1, end)
    ELSE index

\* a ZScriptLexer::styleWord that asks for no '(' after the word
ZScriptLexer_styleWord_NoParen(m, word) ==
    LET word_str == IF m.lang.caseSensitive THEN word ELSE lower(word)
    IN  IF word_str \in SeqToSet(m.funcs)
        THEN SetStyling(m, Len(word), "Function")
        ELSE styleWord(m, word)

\* ZScriptLexer::styleWord
ZScriptLexer_styleWord(m, word) ==
    LET index == skipWhitespace(m.txt, m.position, m.end)
        word_str == IF m.lang.caseSensitive THEN word ELSE lower(word)
    IN  IF GetCharAt(m.txt, index) = "(" /\ word_str \in SeqToSet(m.funcs)
        THEN SetStyling(m, Len(word), "Function")
        ELSE styleWord(m, word)

\* styleWord of the lexer's class (the call is virtual)
styleWordOf(m, word) ==
    IF m.zs THEN ZScriptLexer_styleWord(m, word) ELSE styleWord(m, word)

\* a processUnknown for which every block comment that opens is a word
commentHasWord_Always(m, has_word) == TRUE

\* if (fold_comments_) state.has_word = true
commentHasWord(m, has_word) == IF m.fc THEN TRUE ELSE has_word

\* a processUnknown that records every comment as one of the first pair
openIndex_First(comment_idx) == 0

\* the index checkToken stores in curr_comment_idx_: that of the begin token
\* it found
openIndex(comment_idx) == comment_idx

\* a processUnknown that leaves the sigil out of the word after it
sigilBack_None(pp) == 0

\* if (pp) { state.position--; u_length--; }
sigilBack(pp) == IF pp THEN 1 ELSE 0

\* a processUnknown that looks for the line-comment tokens first
lineCommentStyle_LineFirst(m) ==
    IF checkTokenL(m.txt, m.position, m.lang.lineCommentL) >= 0 THEN "Comment"
    ELSE IF checkToken(m.txt, m.position, m.lang.docComment) THEN "CommentDoc"
    ELSE NoStyle

\* the style of the comment to the end of the range that starts at the
\* position, if one does: the doc-comment token is looked for first
lineCommentStyle(m) ==
    IF checkToken(m.txt, m.position, m.lang.docComment) THEN "CommentDoc"
    ELSE IF checkTokenL(m.txt, m.position, m.lang.lineCommentL) >= 0 THEN "Comment"
    ELSE NoStyle

RECURSIVE processUnknownLoop(_, _, _)
\* the loop of Lexer::processUnknown, with its locals u_length and pp
processUnknownLoop(m, u_length, pp) ==
    LET c == GetCharAt(m.txt, m.position)
        comment_idx == checkTokenL(m.txt, m.position, m.lang.commentBeginL)
        tokenLen == Len(m.lang.commentBeginL[comment_idx + 1])
        ppc == IF m.lang.preprocessor = <<>> THEN NUL ELSE m.lang.preprocessor[1]
    IN
    IF m.position > m.end
    THEN Step(SetStyling([m EXCEPT !.lines[m.line + 1].comment_idx = -1],
                         u_length, "Default"), TRUE)
    ELSE IF c = DQUOTE
    THEN Step(SetStyling([m EXCEPT !.state = "String", !.position = @ + 1,
                                   !.length = 1, !.has_word = TRUE],
                         u_length, "Default"), FALSE)
    ELSE IF m.lang.null
    THEN processUnknownLoop([m EXCEPT !.position = @ + 1], u_length + 1, pp)
    ELSE IF c = SQUOTE
    THEN Step(SetStyling([m EXCEPT !.state = "Char", !.position = @ + 1,
                                   !.length = 1, !.has_word = TRUE],
                         u_length, "Default"), FALSE)
    ELSE IF comment_idx >= 0
    THEN Step(SetStyling([m EXCEPT !.cci = openIndex(comment_idx),
                                   !.state = "Comment",
                                   !.length = tokenLen,
                                   !.position = @ + tokenLen,
                                   !.fold_increment = @ + commentFold(m),
                                   !.has_word = commentHasWord(m, @)],
                         u_length, "Default"), FALSE)
    ELSE IF lineCommentStyle(m) # NoStyle
    THEN Step(SetStyling(SetStyling(m, u_length, "Default"),
                         m.end - m.position + 1, lineCommentStyle(m)), TRUE)
    ELSE IF c \in whitespace_chars_
    THEN Step(SetStyling([m EXCEPT !.state = "Whitespace", !.position = @ + 1,
                                   !.length = 1],
                         u_length, "Default"), FALSE)
    ELSE IF c = ppc
    THEN processUnknownLoop([m EXCEPT !.position = @ + 1], u_length + 1, TRUE)
    ELSE IF c \in operator_chars_
    THEN Step(SetStyling([m EXCEPT !.position = @ + 1, !.state = "Operator",
                                   !.length = 1, !.has_word = TRUE],
                         u_length, "Default"), FALSE)
    ELSE IF c \in word_chars_
    THEN Step(SetStyling([m EXCEPT !.position = @ - sigilBack(pp),
                                   !.state = "Word", !.length = 0,
                                   !.has_word = TRUE],
                         u_length - sigilBack(pp), "Default"), FALSE)
    ELSE processUnknownLoop(
            [m EXCEPT !.fold_increment = @ + blockFold(m), !.position = @ + 1],
            u_length + 1, FALSE)

\* Lexer::processUnknown
processUnknown(m) == processUnknownLoop(m, 0, FALSE)

\* a processComment that always looks for the end token of the first pair
commentEnd_FirstPair(m) ==
    IF m.cci < 0 THEN <<>>
    ELSE IF ~m.lang.null /\ m.lang.commentEndL # <<>>
    THEN m.lang.commentEndL[1]
    ELSE m.ub.token

\* language_->commentEndL()[curr_comment_idx_] has no defined value without a
\* language, or with an index the list does not have
commentEndUndefined(m) ==
    m.cci >= 0 /\ (m.lang.null \/ m.cci >= Len(m.lang.commentEndL))

\* what an undefined read of the end token can do: stop the program, or hand
\* back whatever string the build finds there
UBOutcomes ==
    {[crash |-> TRUE, token |-> <<>>]}
        \cup {[crash |-> FALSE, token |-> t] : t \in {<<>>, <<"*", "/">>}}

\* the outcome named where every read is defined
NoUB == [crash |-> FALSE, token |-> <<>>]

\* the end token processComment looks for: commentEndL()[curr_comment_idx_];
\* m.ub stands for the outcome of the read where it is undefined
commentEnd(m) ==
    IF m.cci < 0 THEN <<>>
    ELSE IF ~commentEndUndefined(m)
    THEN m.lang.commentEndL[m.cci + 1]
    ELSE m.ub.token

RECURSIVE processCommentLoop(_, _)
processCommentLoop(m, comment_end) ==
    IF m.position > m.end
    THEN Step(SetStyling(m, m.length, "Comment"), TRUE)
    ELSE IF checkToken(m.txt, m.position, comment_end)
    THEN Step(SetStyling([m EXCEPT !.length = @ + Len(comment_end),
                                   !.position = @ + Len(comment_end),
                                   !.state = "Unknown",
                                   !.cci = -1,
                                   !.fold_increment = @ - commentFold(m)],
                         m.length + Len(comment_end), "Comment"), FALSE)
    ELSE processCommentLoop([m EXCEPT !.length = @ + 1, !.position = @ + 1], comment_end)

\* Lexer::processComment
processComment(m) ==
    IF commentEndUndefined(m) /\ m.ub.crash
    THEN Step([m EXCEPT !.error = TRUE], TRUE)
    ELSE processCommentLoop(m, commentEnd(m))

RECURSIVE processWordLoop(_, _)
\* the loop of Lexer::processWord: the machine and the word read at the end of it
processWordLoop(m, word) ==
    IF m.position > m.end
    THEN [m |-> [m EXCEPT !.lines[m.line + 1].comment_idx = -1], word |-> word, done |-> TRUE]
    ELSE IF GetCharAt(m.txt, m.position) \in word_chars_
    THEN processWordLoop([m EXCEPT !.position = @ + 1],
                         Append(word, GetCharAt(m.txt, m.position)))
    ELSE [m |-> [m EXCEPT !.state = "Unknown"], word |-> word, done |-> FALSE]

\* a processWord that looks the word up in both pairs of lists
wordFold_BothPairs(m, word) ==
    LET word_lower == lower(word)
    IN  (IF word_lower \in SeqToSet(m.lang.ppBlockBegin) THEN 1
         ELSE IF word_lower \in SeqToSet(m.lang.ppBlockEnd) THEN -1
         ELSE 0)
        + (IF word_lower \in SeqToSet(m.lang.wordBlockBegin) THEN 1
           ELSE IF word_lower \in SeqToSet(m.lang.wordBlockEnd) THEN -1
           ELSE 0)

\* the fold increment of a word (the block keywords of processWord)
wordFold(m, word) ==
    LET word_lower == lower(word)
    IN  IF m.fp /\ word[1] = m.ppc
        THEN IF word_lower \in SeqToSet(m.lang.ppBlockBegin) THEN 1
             ELSE IF word_lower \in SeqToSet(m.lang.ppBlockEnd) THEN -1
             ELSE 0
        ELSE IF word_lower \in SeqToSet(m.lang.wordBlockBegin) THEN 1
             ELSE IF word_lower \in SeqToSet(m.lang.wordBlockEnd) THEN -1
             ELSE 0

\* Lexer::processWord
processWord(m) ==
    LET r == processWordLoop([m EXCEPT !.position = @ + 1],
                             <<GetCharAt(m.txt, m.position)>>)
        folded == [r.m EXCEPT !.fold_increment = @ + wordFold(m, r.word)]
    IN Step(styleWordOf(folded, r.word), r.done)

RECURSIVE processQuotedLoop(_, _, _)
\* the common loop of processString and processChar: up to the closing quote
processQuotedLoop(m, quote, style) ==
    IF m.position > m.end
    THEN Step(SetStyling([m EXCEPT !.lines[m.line + 1].comment_idx = -1],
                         m.length, style), TRUE)
    ELSE IF GetCharAt(m.txt, m.position) = quote
    THEN Step(SetStyling([m EXCEPT !.length = @ + 1, !.position = @ + 1,
                                   !.state = "Unknown"],
                         m.length + 1, style), FALSE)
    ELSE processQuotedLoop([m EXCEPT !.length = @ + 1, !.position = @ + 1], quote, style)

\* Lexer::processString
processString(m) == processQuotedLoop(m, DQUOTE, "String")

\* Lexer::processChar
processChar(m) == processQuotedLoop(m, SQUOTE, "Char")

RECURSIVE processRunLoop(_, _, _)
\* the common loop of processOperator and processWhitespace: while in chars
processRunLoop(m, chars, style) ==
    IF m.position > m.end
    THEN Step(SetStyling([m EXCEPT !.lines[m.line + 1].comment_idx = -1],
                         m.length, style), TRUE)
    ELSE IF GetCharAt(m.txt, m.position) \in chars
    THEN processRunLoop([m EXCEPT !.length = @ + 1, !.position = @ + 1], chars, style)
    ELSE Step(SetStyling([m EXCEPT !.state = "Unknown"], m.length, style), FALSE)

\* Lexer::processOperator
processOperator(m) == processRunLoop(m, operator_chars_, "Operator")

\* Lexer::processWhitespace
processWhitespace(m) == processRunLoop(m, whitespace_chars_, "Default")

\* one turn of the dispatch loop of doStyling
dispatch(m) ==
    CASE m.state = "Whitespace" -> processWhitespace(m)
      [] m.state = "Comment" -> processComment(m)
      [] m.state = "String" -> processString(m)
      [] m.state = "Char" -> processChar(m)
      [] m.state = "Word" -> processWord(m)
      [] m.state = "Operator" -> processOperator(m)
      [] OTHER -> processUnknown(m)

RECURSIVE styleLoop(_)
\* while (!done): one process* step per turn; trace keeps the FSM state and the
\* position each step was entered with
styleLoop(m) ==
    LET r == dispatch([m EXCEPT !.trace = Append(@, <<m.state, m.position>>)])
    IN IF r.done THEN r.m ELSE styleLoop(r.m)

\* the state doStyling starts in, from the record of the starting line
initialState(lines, line) == IF lines[line].comment_idx >= 0 THEN "Comment" ELSE "Unknown"

\* a doStyling without "else curr_comment_idx_ = -1"
initialCommentIdx_KeepLeftover(lines, line, cci) ==
    IF initialState(lines, line) = "Comment" THEN lines[line].comment_idx ELSE cci

initialCommentIdx(lines, line, cci) ==
    IF initialState(lines, line) = "Comment" THEN lines[line].comment_idx ELSE -1

\* a doStyling that marks the next line as having a word as well
finishLines_NextLineToo(m) ==
    [m.lines EXCEPT ![m.line].fold_increment = m.fold_increment,
                    ![m.line].has_word = m.has_word,
                    ![m.line + 1].has_word = m.has_word,
                    ![m.line + 1].comment_idx =
                        IF m.state = "Comment" THEN m.cci ELSE @]

\* what doStyling writes to lines_ after the loop
finishLines(m) ==
    LET own == [m.lines EXCEPT ![m.line].fold_increment = m.fold_increment,
                               ![m.line].has_word = m.has_word]
    IN  IF m.state = "Comment"
        THEN [own EXCEPT ![m.line + 1].comment_idx = m.cci]
        ELSE IF m.state = "Whitespace"
        THEN [own EXCEPT ![m.line].comment_idx = -1, ![m.line + 1].comment_idx = -1]
        ELSE own

\* a doStyling that asks for more whenever a run was cut by the range end
stillInComment_AnyRun(m) == m.state # "Unknown"

\* the value doStyling returns
stillInComment(m) == m.state = "Comment"

\* a doStyling that takes a negative start as it comes
clampStart_None(start) == start

\* if (start < 0) start = 0
clampStart(start) == IF start < 0 THEN 0 ELSE start

\* Lexer::doStyling(editor, start, end) on a lexer lx = [lang, ppc, fc, fp, lines,
\* cci, words] and a text: the machine at the return, lines_ written (state0 and
\* idx0 keep the FSM state and curr_comment_idx_ the loop was entered with)
doStyling(lx, txt, start0, end, ub) ==
    LET start == clampStart(start0)
        line == LineFromPosition(txt, start)
        m0 == [txt |-> txt, lang |-> lx.lang, ppc |-> lx.ppc, fc |-> lx.fc, fp |-> lx.fp,
               ub |-> ub, error |-> FALSE, trace |-> <<>>,
               start |-> start, position |-> start, end |-> end, line |-> line,
               state |-> initialState(lx.lines, line),
               state0 |-> initialState(lx.lines, line),
               idx0 |-> initialCommentIdx(lx.lines, line, lx.cci),
               length |-> 0, fold_increment |-> 0, has_word |-> FALSE,
               lines |-> lx.lines,
               cci |-> initialCommentIdx(lx.lines, line, lx.cci),
               words |-> lx.words,
               zs |-> lx.zs, funcs |-> lx.funcs,
               runs |-> <<>>]
        m == styleLoop(m0)
    IN IF m.error THEN m ELSE [m EXCEPT !.lines = finishLines(m)]

----------------------------------------------------------------------------
(* Lexer::isFunction and ZScriptLexer::isFunction *)

\* editor->GetTextRange(start_pos, end_pos): the characters from start_pos up
\* to, not including, end_pos
GetTextRange(txt, start_pos, end_pos) == SubSeq(txt, start_pos + 1, end_pos)

\* if (language_->caseSensitive()) StrUtil::lowerIP(word)
isFunctionWord(lang, word) == IF lang.caseSensitive THEN lower(word) ELSE word

\* Lexer::isFunction: the result, and the word table after the lookup
isFunction(lx, txt, start_pos, end_pos) ==
    LET word == isFunctionWord(lx.lang, GetTextRange(txt, start_pos, end_pos))
    IN [ret |-> wordStyle(lx.words, word) = "Function",
        words |-> touchWord(lx.words, word)]

\* ZScriptLexer::isFunction
ZScriptLexer_isFunction(lx, txt, start_pos, end_pos) ==
    LET index == skipWhitespace(txt, end_pos, Len(txt))
        word == GetTextRange(txt, start_pos, end_pos)
    IN [ret |-> /\ GetCharAt(txt, index) = "("
                /\ (IF lx.lang.caseSensitive THEN word ELSE lower(word))
                       \in SeqToSet(lx.funcs),
        words |-> lx.words]

\* isFunction of the lexer's class (the call is virtual)
isFunctionOf(lx, txt, start_pos, end_pos) ==
    IF lx.zs THEN ZScriptLexer_isFunction(lx, txt, start_pos, end_pos)
    ELSE isFunction(lx, txt, start_pos, end_pos)

----------------------------------------------------------------------------
(* Lexer::loadLanguage *)

\* Lexer::addWord
addWord(lang, words, word, style) ==
    LET key == IF lang.caseSensitive THEN word ELSE lower(word)
    IN [w \in DOMAIN words \cup {key} |-> IF w = key THEN style ELSE words[w]]

RECURSIVE addWords(_, _, _, _)
\* for (const auto& word : list) addWord(word, style)
addWords(lang, words, list, style) ==
    IF list = <<>> THEN words
    ELSE addWords(lang, addWord(lang, words, list[1], style), Tail(list), style)

\* a loadLanguage that loads the keywords first
loadOrder_KeywordsFirst(lang) ==
    << <<lang.keywords, "Keyword">>, <<lang.constants, "Constant">>,
       <<lang.properties, "Property">>, <<lang.functions, "Function">>,
       <<lang.types, "Type">> >>

\* the order in which loadLanguage loads the word lists
loadOrder(lang) ==
    << <<lang.constants, "Constant">>, <<lang.properties, "Property">>,
       <<lang.functions, "Function">>, <<lang.types, "Type">>,
       <<lang.keywords, "Keyword">> >>

RECURSIVE loadLists(_, _, _)
loadLists(lang, words, lists) ==
    IF lists = <<>> THEN words
    ELSE loadLists(lang, addWords(lang, words, lists[1][1], lists[1][2]), Tail(lists))

\* Lexer::clearWords
clearWords == <<>>

\* the word table after loadLanguage(lang)
loadLanguage(lang) ==
    IF lang.null THEN clearWords ELSE loadLists(lang, clearWords, loadOrder(lang))

\* ZScriptLexer::addWord on the tables t = [words, funcs]
ZScriptLexer_addWord(lang, t, word, style) ==
    IF style = "Function"
    THEN [t EXCEPT !.funcs = Append(@, IF lang.caseSensitive THEN word ELSE lower(word))]
    ELSE [t EXCEPT !.words = addWord(lang, @, word, style)]

\* a ZScriptLexer::clearWords that keeps the function list
ZScriptLexer_clearWords_KeepFunctions(t) == [t EXCEPT !.words = clearWords]

\* ZScriptLexer::clearWords
ZScriptLexer_clearWords(t) == [words |-> clearWords, funcs |-> <<>>]

\* addWord and clearWords of the lexer's class (both calls are virtual)
addWordOf(zs, lang, t, word, style) ==
    IF zs THEN ZScriptLexer_addWord(lang, t, word, style)
    ELSE [t EXCEPT !.words = addWord(lang, @, word, style)]

clearWordsOf(zs, t) ==
    IF zs THEN ZScriptLexer_clearWords(t) ELSE [t EXCEPT !.words = clearWords]

RECURSIVE addWordsOf(_, _, _, _, _)
addWordsOf(zs, lang, t, list, style) ==
    IF list = <<>> THEN t
    ELSE addWordsOf(zs, lang, addWordOf(zs, lang, t, list[1], style), Tail(list), style)

RECURSIVE loadListsOf(_, _, _, _)
loadListsOf(zs, lang, t, lists) ==
    IF lists = <<>> THEN t
    ELSE loadListsOf(zs, lang, addWordsOf(zs, lang, t, lists[1][1], lists[1][2]),
                     Tail(lists))

\* Lexer::loadLanguage(lang) on a lexer of either class: the tables after it
loadTables(zs, lang, t) ==
    IF lang.null THEN clearWordsOf(zs, t)
    ELSE loadListsOf(zs, lang, clearWordsOf(zs, t), loadOrder(lang))

\* preprocessor_char_ after loadLanguage(lang) when it was ppc before
loadPreprocessorChar(lang, ppc) ==
    IF lang.null THEN ppc
    ELSE IF lang.preprocessor = <<>> THEN NUL ELSE lang.preprocessor[1]

----------------------------------------------------------------------------
(* Lexer::updateFolding.  f holds the editor's fold levels (levels: line ->   *)
(* [level, header]), the SetFoldLevel calls made so far (writes) and lines_   *)

wxSTC_FOLDLEVELBASE == 1024

\* editor->SetFoldLevel(line, level | flag), called while the loop is at line at;
\* the editor has nothing to set for a line it does not hold
SetFoldLevel(f, at, line, level, header) ==
    [f EXCEPT !.levels = IF line \in DOMAIN @
                         THEN [@ EXCEPT ![line] = [level |-> level, header |-> header]]
                         ELSE @,
              !.writes = Append(@, [at |-> at, line |-> line, level |-> level,
                                    header |-> header])]

\* an updateFolding without "if (next_level < wxSTC_FOLDLEVELBASE)"
clampLevel_None(level) == level

\* the next level, kept at or above the base level
clampLevel(level) == IF level < wxSTC_FOLDLEVELBASE THEN wxSTC_FOLDLEVELBASE ELSE level

\* an updateFolding that uses up the increment it reads
readLine_Consume(f, l) == [f EXCEPT !.lines[l].fold_increment = 0]

\* lines_[l] as the loop reads it: the records stay as they are
readLine(f, l) == f

RECURSIVE updateFoldingLoop(_, _, _, _)
\* for (int l = line_start; l < editor->GetLineCount(); l++)
updateFoldingLoop(f, l, count, fold_level) ==
    IF l >= count THEN f
    ELSE LET next_level == clampLevel(fold_level + f.lines[l].fold_increment)
             g == readLine(f, l)
         IN  IF next_level > fold_level
             THEN IF ~f.lines[l].has_word
                  THEN updateFoldingLoop(
                           SetFoldLevel(SetFoldLevel(g, l, l - 1, fold_level, TRUE),
                                        l, l, next_level, FALSE),
                           l + 1, count, next_level)
                  ELSE updateFoldingLoop(SetFoldLevel(g, l, l, fold_level, TRUE),
                                         l + 1, count, next_level)
             ELSE updateFoldingLoop(SetFoldLevel(g, l, l, fold_level, FALSE),
                                    l + 1, count, next_level)

\* Lexer::updateFolding(editor, line_start)
updateFolding(lines, levels, count, line_start) ==
    updateFoldingLoop([levels |-> levels, writes |-> <<>>, lines |-> lines],
                      line_start, count, levels[line_start].level)

----------------------------------------------------------------------------
(* Bounds and inputs *)

MaxLen == 4         \* longest text of the range-styling specification
MaxLines == 3       \* most lines of a text of the line-styling specifications

Alphabet == {"/", "*", NL}

RECURSIVE TextsOfLen(_, _)
TextsOfLen(chars, n) ==
    IF n = 0 THEN {<<>>}
    ELSE {Append(t, c) : t \in TextsOfLen(chars, n - 1), c \in chars}

Texts(chars, n) == UNION {TextsOfLen(chars, k) : k \in 1..n}

\* the lines the line-styling specifications build their texts from
LinePool ==
    { <<"/", "*">>,                 \* opens a comment of pair 0
      <<"*", "/">>,                 \* closes it
      <<"/", "+", "a">>,            \* opens a comment of pair 1
      <<"a", "+", "/", " ">>,       \* closes it, then whitespace
      <<"a">>,                      \* a word
      <<"/", "/", "a">>,            \* a line comment
      <<"/", "*", "a", "*", "/">>,  \* a comment of pair 0, opened and closed
      <<DQUOTE, "a">>,              \* a string that is not closed
      <<"{">>,                      \* a block delimiter
      <<>> }                        \* nothing but the line break

RECURSIVE JoinLines(_)
\* the lines, each ended by a line break
JoinLines(ls) == IF ls = <<>> THEN <<>> ELSE ls[1] \o <<NL>> \o JoinLines(Tail(ls))

LineTexts == {JoinLines(ls) : ls \in UNION {[1..k -> LinePool] : k \in 1..MaxLines}}

----------------------------------------------------------------------------
(* State *)

NoCall ==
    [valid |-> FALSE, start |-> -1, from |-> -1, end |-> -1, line |-> -1,
     state0 |-> "Unknown", idx0 |-> -1, leftover |-> -1, pre |-> <<>>,
     runs |-> <<>>, ret |-> FALSE, state |-> "Unknown", error |-> FALSE,
     trace |-> <<>>, position |-> -1,
     before |-> [valid |-> FALSE, line |-> -1, ret |-> FALSE, idx |-> -1]]

Lx ==
    [lang |-> language_, ppc |-> preprocessor_char_, fc |-> fold_comments_,
     fp |-> fold_preprocessor_, lines |-> lines_, cci |-> curr_comment_idx_,
     words |-> word_list_, zs |-> zscript, funcs |-> functions_]

NoTables == [words |-> <<>>, funcs |-> <<>>]

Tables == [words |-> word_list_, funcs |-> functions_]

NoQuery == [valid |-> FALSE, start_pos |-> -1, end_pos |-> -1, ret |-> FALSE]

NoFolding == [valid |-> FALSE, line_start |-> -1, base |-> -1, writes |-> <<>>]

\* a lexer (a ZScriptLexer if zs) with lang loaded and an editor holding txt,
\* nothing styled yet and every line at the base fold level
FreshLexer(txt, lang, zs) ==
    /\ text = txt
    /\ styles = [i \in 1..Len(txt) |-> NoStyle]
    /\ language_ = lang
    /\ zscript = zs
    /\ word_list_ = loadTables(zs, lang, NoTables).words
    /\ functions_ = loadTables(zs, lang, NoTables).funcs
    /\ fold_levels = [l \in 0..(GetLineCount(txt) - 1) |->
                         [level |-> wxSTC_FOLDLEVELBASE, header |-> FALSE]]
    /\ folding = NoFolding
    /\ query = NoQuery
    /\ preprocessor_char_ = loadPreprocessorChar(lang, NUL)
    /\ lines_ = [l \in 0..GetLineCount(txt) |-> DefaultLine]
    /\ curr_comment_idx_ = -1
    /\ fold_preprocessor_ = FALSE
    /\ call = NoCall
    /\ phase = "pass"
    /\ cursor = 0
    /\ passed = <<>>

\* the same for a lexer of the base class
Fresh(txt, lang) == FreshLexer(txt, lang, FALSE)

Init ==
    /\ \E txt \in Texts(Alphabet, MaxLen) : Fresh(txt, LangC)
    /\ fold_comments_ = FALSE

NoBefore == [valid |-> FALSE, line |-> -1, ret |-> FALSE, idx |-> -1]

\* the outcomes of the end-token read in a doStyling from start: it is
\* undefined when the starting line is recorded inside a comment whose index
\* the language loaded now does not have
Outcomes(start) ==
    LET line == LineFromPosition(text, clampStart(start))
    IN  IF /\ lines_[line].comment_idx >= 0
           /\ \/ language_.null
              \/ lines_[line].comment_idx >= Len(language_.commentEndL)
        THEN UBOutcomes ELSE {NoUB}

\* the effect of doStyling(editor, start, end) on the lexer and the editor; a
\* caller that goes from line to line (chained) keeps what the call before gave
Styled(start, end, chained) ==
    \E m \in {doStyling(Lx, text, start, end, ub) : ub \in Outcomes(start)} :
        /\ lines_' = m.lines
        /\ curr_comment_idx_' = m.cci
        /\ word_list_' = m.words
        /\ styles' = StyleRuns(styles, m.start, m.runs)
        /\ call' = [valid |-> TRUE, start |-> start, from |-> m.start, end |-> end,
                    line |-> m.line,
                    state0 |-> m.state0,
                    idx0 |-> m.idx0,
                    leftover |-> curr_comment_idx_,
                    pre |-> lines_,
                    runs |-> m.runs, ret |-> stillInComment(m), state |-> m.state,
                    error |-> m.error, trace |-> m.trace, position |-> m.position,
                    before |-> IF chained
                               THEN [valid |-> call.valid, line |-> call.line,
                                     ret |-> call.ret, idx |-> curr_comment_idx_]
                               ELSE NoBefore]
        /\ UNCHANGED <<text, language_, preprocessor_char_, fold_comments_,
                       fold_preprocessor_, zsVars, foldVars, query>>

\* the first positions of the lines of txt that have characters
LineStarts(txt) == {p \in 0..(Len(txt) - 1) : p = 0 \/ txt[p] = NL}

\* doStyling from the start of a line to any later position of the text
DoStyling ==
    \E start \in LineStarts(text) : \E end \in start..(Len(text) - 1) :
        /\ Styled(start, end, FALSE)
        /\ UNCHANGED <<phase, cursor, passed>>

Next == DoStyling

Spec == Init /\ [][Next]_vars

----------------------------------------------------------------------------
(* The caller styling whole lines: a pass from the first line to the last,  *)
(* an edit of one line, and the restyling that follows it                   *)

\* the lines of txt that have characters
TextLines(txt) == IF txt = <<>> THEN 0 ELSE LineFromPosition(txt, Len(txt) - 1) + 1

\* the characters of line l, its line break included
LineText(txt, l) == SubSeq(txt, LineStart(txt, l) + 1, LineLast(txt, l) + 1)

InitLines ==
    /\ \E txt \in LineTexts : Fresh(txt, LangC)
    /\ fold_comments_ \in BOOLEAN

\* the pass hands the next line to doStyling
StyleNext ==
    /\ phase = "pass"
    /\ cursor < TextLines(text)
    /\ Styled(LineStart(text, cursor), LineLast(text, cursor), TRUE)
    /\ cursor' = cursor + 1
    /\ passed' = Append(passed, [ret |-> call'.ret, idx |-> curr_comment_idx_'])
    /\ phase' = IF cursor + 1 = TextLines(text) THEN "passed" ELSE "pass"

\* the caller styles the range of the last call once more
StyleAgain ==
    /\ call.valid
    /\ Styled(call.start, call.end, TRUE)
    /\ UNCHANGED <<phase, cursor, passed>>

\* txt with line l replaced by the line new
ReplaceLine(txt, l, new) ==
    SubSeq(txt, 1, LineStart(txt, l)) \o new \o <<NL>>
        \o SubSeq(txt, LineLast(txt, l) + 2, Len(txt))

\* the user replaces line l (the line count stays, so lines_ keeps its size);
\* the new characters have no style yet
EditLine ==
    \E l \in 0..(TextLines(text) - 1) : \E new \in LinePool :
        /\ phase = "passed"
        /\ new \o <<NL>> # LineText(text, l)
        /\ text' = ReplaceLine(text, l, new)
        /\ styles' = SubSeq(styles, 1, LineStart(text, l))
                        \o [i \in 1..(Len(new) + 1) |-> NoStyle]
                        \o SubSeq(styles, LineLast(text, l) + 2, Len(styles))
        /\ call' = NoCall
        /\ phase' = "restyle"
        /\ cursor' = l
        /\ UNCHANGED <<language_, word_list_, preprocessor_char_, lines_,
                       curr_comment_idx_, fold_comments_, fold_preprocessor_, passed,
                       zsVars, foldVars, query>>

\* after the edit: the edited line, then the next one as long as doStyling
\* returns true
RestyleNext ==
    /\ phase = "restyle"
    /\ Styled(LineStart(text, cursor), LineLast(text, cursor), TRUE)
    /\ IF call'.ret /\ cursor + 1 < TextLines(text)
       THEN cursor' = cursor + 1 /\ phase' = "restyle"
       ELSE cursor' = cursor /\ phase' = "done"
    /\ UNCHANGED passed

NextPass == StyleNext
SpecPass == InitLines /\ [][NextPass]_vars

NextAgain == StyleNext \/ StyleAgain
SpecAgain == InitLines /\ [][NextAgain]_vars

NextEdit == StyleNext \/ EditLine \/ RestyleNext
SpecEdit == InitLines /\ [][NextEdit]_vars

----------------------------------------------------------------------------
(* Words: whole texts of word characters, whitespace, quotes and the        *)
(* preprocessor character, in a language with and without case              *)

MaxWordLen == 4     \* longest text of the word specification

WordAlphabet == {"i", "f", "F", " ", "#", DQUOTE}

InitWords ==
    /\ \E txt \in Texts(WordAlphabet, MaxWordLen) : \E lang \in {LangC, LangNoCase} :
          Fresh(txt, lang)
    /\ fold_comments_ = FALSE

\* doStyling on the whole text
StyleText ==
    /\ Styled(0, Len(text) - 1, FALSE)
    /\ UNCHANGED <<phase, cursor, passed>>

NextWords == StyleText
SpecWords == InitWords /\ [][NextWords]_vars

----------------------------------------------------------------------------
(* Loading languages *)

\* a lexer as constructed: no language, no words, an empty editor
InitLoad ==
    /\ Fresh(<<>>, NullLanguage)
    /\ fold_comments_ = FALSE

\* Lexer::loadLanguage(lang)
Load(lang) ==
        /\ language_' = lang
        /\ word_list_' = loadTables(zscript, lang, Tables).words
        /\ functions_' = loadTables(zscript, lang, Tables).funcs
        /\ preprocessor_char_' = loadPreprocessorChar(lang, preprocessor_char_)
        /\ UNCHANGED <<text, styles, lines_, curr_comment_idx_, fold_comments_,
                       fold_preprocessor_, call, phase, cursor, passed, zscript,
                       foldVars, query>>

LoadLanguage == \E lang \in LoadLanguages \cup {NullLanguage} : Load(lang)

NextLoad == LoadLanguage
SpecLoad == InitLoad /\ [][NextLoad]_vars

----------------------------------------------------------------------------
(* Switching languages between styling calls, on a lexer of either class    *)

MaxSwitchLen == 2   \* longest text of the language-switching specification

\* two languages with no word in common, one of them without case
LangA == [LangC EXCEPT !.keywords = << <<"a">> >>, !.functions = << <<"f">> >>]
LangB == [LangC EXCEPT !.caseSensitive = FALSE, !.keywords = << <<"B">> >>,
                       !.functions = << <<"G">> >>]

SwitchLanguages == {LangA, LangB, NullLanguage}

SwitchAlphabet == {"a", "b", "f", "g", "(", " "}

\* a lexer as constructed, of either class, on any of the texts
InitSwitch ==
    /\ \E txt \in Texts(SwitchAlphabet, MaxSwitchLen) : \E zs \in BOOLEAN :
          FreshLexer(txt, NullLanguage, zs)
    /\ fold_comments_ = FALSE

SwitchLanguage == \E lang \in SwitchLanguages : Load(lang)

NextSwitch == SwitchLanguage \/ StyleText
SpecSwitch == InitSwitch /\ [][NextSwitch]_vars

----------------------------------------------------------------------------
(* Numbers: texts made of number-like words with one blank between them     *)

MaxPieces == 2      \* most words of a text of the number specification

NumberLike ==
    { <<"1", "2", "3">>,
      <<"+", "0", "0", "7">>,
      <<"0", "x", "1", "F">>,
      <<"1", "2", ".", "5", "e", "-", "3">>,
      <<"1", "2", "a", "b", "c">> }

RECURSIVE JoinWords(_)
\* the words with one blank between them
JoinWords(ws) ==
    IF Len(ws) = 1 THEN ws[1] ELSE ws[1] \o <<" ">> \o JoinWords(Tail(ws))

NumberTexts == {JoinWords(ws) : ws \in UNION {[1..k -> NumberLike] : k \in 1..MaxPieces}}

InitNumbers ==
    /\ \E txt \in NumberTexts : \E lang \in {LangC, LangNoCase} : Fresh(txt, lang)
    /\ fold_comments_ = FALSE

NextNumbers == StyleText
SpecNumbers == InitNumbers /\ [][NextNumbers]_vars

----------------------------------------------------------------------------
(* A ZScriptLexer styling ranges of a line of function names, blanks and '(' *)

MaxCallLen == 4     \* longest text of the ZScript specification

\* languages with one function and one keyword, with and without case
LangZ == [LangC EXCEPT !.functions = << <<"f">> >>, !.keywords = << <<"k">> >>]
LangZNoCase == [LangZ EXCEPT !.caseSensitive = FALSE, !.functions = << <<"F">> >>]

ZAlphabet == {"f", "F", "k", " ", "("}

InitZScript ==
    /\ \E txt \in Texts(ZAlphabet, MaxCallLen) : \E lang \in {LangZ, LangZNoCase} :
          FreshLexer(txt, lang, TRUE)
    /\ fold_comments_ = FALSE

NextZScript == DoStyling
SpecZScript == InitZScript /\ [][NextZScript]_vars

----------------------------------------------------------------------------
(* Folding: a pass over lines of block delimiters and words, then            *)
(* updateFolding from any line, any number of times                          *)

MaxFoldLines == 3   \* most lines of a text of the folding specification
MaxDepth == 3       \* updateFolding is not called once a line is this far above the base level

FoldPool ==
    { <<"{">>,                      \* opens a block, no word
      <<"a", "{">>,                 \* opens a block after a word
      <<"}">>,                      \* closes a block
      <<"}", "}">>,                 \* closes two
      <<"a">>,                      \* a word
      <<>> }                        \* nothing but the line break

FoldTexts == {JoinLines(ls) : ls \in UNION {[1..k -> FoldPool] : k \in 1..MaxFoldLines}}

InitFold ==
    /\ \E txt \in FoldTexts : Fresh(txt, LangC)
    /\ fold_comments_ = FALSE

\* Lexer::updateFolding(editor, line_start), after the pass
UpdateFolding ==
    \E line_start \in 0..(GetLineCount(text) - 1) :
        /\ phase = "passed"
        /\ \A l \in DOMAIN fold_levels :
              fold_levels[l].level < wxSTC_FOLDLEVELBASE + MaxDepth
        /\ \E f \in {updateFolding(lines_, fold_levels, GetLineCount(text), line_start)} :
              /\ fold_levels' = f.levels
              /\ lines_' = f.lines
              /\ folding' = [valid |-> TRUE, line_start |-> line_start,
                             base |-> fold_levels[line_start].level,
                             writes |-> f.writes]
        /\ UNCHANGED <<text, styles, language_, word_list_, preprocessor_char_,
                       curr_comment_idx_, fold_comments_, fold_preprocessor_, call,
                       phase, cursor, passed, zsVars, query>>

NextFold == StyleNext \/ UpdateFolding
SpecFold == InitFold /\ [][NextFold]_vars

----------------------------------------------------------------------------
(* Blocks: a pass over lines with block delimiters and block keywords in     *)
(* code, in strings, in char literals and in comments                        *)

MaxBlockLines == 2  \* most lines of a text of the block specification

\* LangC with the block keywords b and e
LangBlocks == [LangC EXCEPT !.wordBlockBegin = << <<"b">> >>,
                            !.wordBlockEnd = << <<"e">> >>]

BlockPool ==
    { <<"{">>,
      <<"}">>,
      <<"a", "{">>,
      <<"b">>,
      <<"e">>,
      <<DQUOTE, "{", DQUOTE>>,          \* a delimiter in a string
      <<SQUOTE, "{", SQUOTE>>,          \* in a char literal
      <<"/", "*", "{", "*", "/">>,      \* in a block comment
      <<"/", "/", "}">>,                \* after a line-comment token
      <<"=", "/", "/", "{">>,           \* after a line-comment token that follows an operator
      <<"/", "*", "{">>,                \* in a block comment that stays open
      <<"}", "*", "/", "}">> }          \* before and after the end of a block comment

BlockTexts == {JoinLines(ls) : ls \in UNION {[1..k -> BlockPool] : k \in 1..MaxBlockLines}}

InitBlocks ==
    /\ \E txt \in BlockTexts : Fresh(txt, LangBlocks)
    /\ fold_comments_ \in BOOLEAN

NextBlocks == StyleNext
SpecBlocks == InitBlocks /\ [][NextBlocks]_vars

----------------------------------------------------------------------------
(* The line "if (x) { // comment" among other lines, in a language with the   *)
(* line comment "//", the keywords if and else and the block delimiters { }   *)

MaxAround == 1      \* most lines before, and most after, the line of the scenario

Scenario ==
    <<"i", "f", " ", "(", "x", ")", " ", "{", " ", "/", "/", " ",
      "c", "o", "m", "m", "e", "n", "t">>

\* the language of the scenario, with and without a preprocessor character and
\* with and without case
ScenarioLanguages ==
    {[NullLanguage EXCEPT !.null = FALSE,
                          !.caseSensitive = cs,
                          !.preprocessor = pp,
                          !.keywords = << <<"i", "f">>, <<"e", "l", "s", "e">> >>,
                          !.lineCommentL = << <<"/", "/">> >>,
                          !.blockBegin = <<"{">>,
                          !.blockEnd = <<"}">>] :
        cs \in BOOLEAN, pp \in {<<>>, <<"#">>}}

AroundPool == { <<"e", "l", "s", "e">>, <<"}">>, <<"/", "/">>, <<>> }

Around == UNION {[1..k -> AroundPool] : k \in 0..MaxAround}

ScenarioTexts == {JoinLines(before \o <<Scenario>> \o after) :
                     before \in Around, after \in Around}

InitScenario ==
    /\ \E txt \in ScenarioTexts : \E lang \in ScenarioLanguages : Fresh(txt, lang)
    /\ fold_comments_ \in BOOLEAN

NextScenario == StyleNext
SpecScenario == InitScenario /\ [][NextScenario]_vars

----------------------------------------------------------------------------
(* Styling after the language was taken away                                *)

MaxPlainLen == 4    \* longest text of the specification without a language

PlainAlphabet == {DQUOTE, "/", "*", NL, "#", "a"}

InitNoLanguage ==
    /\ \E txt \in Texts(PlainAlphabet, MaxPlainLen) : Fresh(txt, LangC)
    /\ fold_comments_ = FALSE

\* loadLanguage(nullptr)
LoadNull == Load(NullLanguage)

NextNoLanguage == LoadNull \/ DoStyling
SpecNoLanguage == InitNoLanguage /\ [][NextNoLanguage]_vars

----------------------------------------------------------------------------
(* Calls with a start before the first position of the text                 *)

MaxBefore == 2      \* how far before position 0 a call starts at most
MaxClampLen == 3    \* longest text of the specification of these calls

InitClamp ==
    /\ \E txt \in Texts(Alphabet, MaxClampLen) : Fresh(txt, LangC)
    /\ fold_comments_ = FALSE

\* doStyling(start, end) with start <= 0
DoStylingFrom ==
    \E start \in (0 - MaxBefore)..0 : \E end \in 0..(Len(text) - 1) :
        /\ Styled(start, end, FALSE)
        /\ UNCHANGED <<phase, cursor, passed>>

NextClamp == DoStyling \/ DoStylingFrom
SpecClamp == InitClamp /\ [][NextClamp]_vars

----------------------------------------------------------------------------
(* Languages whose comment tokens match at the same position                *)

\* a block comment opened by the line-comment token
LangBlockLine ==
    [LangC EXCEPT !.commentBeginL = << <<"/", "/">> >>,
                  !.commentEndL = << <<"*", "/">> >>]

\* a block comment opened by the doc-comment token
LangBlockDoc ==
    [LangC EXCEPT !.commentBeginL = << <<"/", "/", "/">> >>,
                  !.commentEndL = << <<"*", "/">> >>]

PrecedenceLanguages == {LangC, LangBlockLine, LangBlockDoc}

InitPrecedence ==
    /\ \E txt \in Texts(Alphabet, MaxLen) : \E lang \in PrecedenceLanguages :
          Fresh(txt, lang)
    /\ fold_comments_ = FALSE

NextPrecedence == DoStyling
SpecPrecedence == InitPrecedence /\ [][NextPrecedence]_vars

----------------------------------------------------------------------------
(* Preprocessor sigils before words, blanks and operators                   *)

MaxSigilLen == 4    \* longest text of the sigil specification

\* a language that has a word with the sigil in its keyword list
LangSigilWord == [LangC EXCEPT !.keywords = << <<"#", "a">> >>]

SigilLanguages == {LangC, LangSigilWord}

SigilAlphabet == {"#", "a", " ", "+"}

InitSigil ==
    /\ \E txt \in Texts(SigilAlphabet, MaxSigilLen) : \E lang \in SigilLanguages :
          Fresh(txt, lang)
    /\ fold_comments_ = FALSE

NextSigil == DoStyling
SpecSigil == InitSigil /\ [][NextSigil]_vars

----------------------------------------------------------------------------
(* A language without a preprocessor string                                 *)

MaxNoSigilLen == 3  \* longest text of the specification without a sigil

LangNoSigil == [LangC EXCEPT !.preprocessor = <<>>, !.keywords = << <<"a">> >>]

NoSigilAlphabet == {"#", "a", "1", " "}

InitNoSigil ==
    /\ \E txt \in Texts(NoSigilAlphabet, MaxNoSigilLen) : Fresh(txt, LangNoSigil)
    /\ fold_comments_ = FALSE

NextNoSigil == DoStyling
SpecNoSigil == InitNoSigil /\ [][NextNoSigil]_vars

----------------------------------------------------------------------------
(* Block keywords, with and without preprocessor folding                    *)

MaxKeywordLen == 4  \* longest text of the block-keyword specification

\* #b opens and #e closes a preprocessor block, b opens and e closes a block
\* of words; the word lists name the preprocessor words the other way round
LangWordFold ==
    [LangC EXCEPT !.ppBlockBegin = << <<"#", "b">>, <<"b">> >>,
                  !.ppBlockEnd = << <<"#", "e">> >>,
                  !.wordBlockBegin = << <<"b">>, <<"#", "e">> >>,
                  !.wordBlockEnd = << <<"e">>, <<"#", "b">> >>]

WordFoldAlphabet == {"#", "b", "e", " "}

InitWordFold ==
    /\ \E txt \in Texts(WordFoldAlphabet, MaxKeywordLen) : Fresh(txt, LangWordFold)
    /\ fold_comments_ = FALSE

\* preprocessor folding switched on or off
SetFoldPreprocessor ==
    /\ \E fold \in BOOLEAN : fold_preprocessor_' = fold
    /\ UNCHANGED <<text, styles, language_, word_list_, preprocessor_char_, lines_,
                   curr_comment_idx_, fold_comments_, call, phase, cursor, passed,
                   zsVars, foldVars, query>>

NextWordFold == SetFoldPreprocessor \/ StyleText
SpecWordFold == InitWordFold /\ [][NextWordFold]_vars

----------------------------------------------------------------------------
(* Comments of two pairs with the end token of the other pair inside        *)

MaxPairLines == 3   \* most lines of a text of the comment-pair specification

PairPool ==
    { <<"/", "*">>,                         \* opens a comment of pair 0
      <<"/", "+">>,                         \* opens a comment of pair 1
      <<"*", "/">>,                         \* the end token of pair 0
      <<"+", "/">>,                         \* the end token of pair 1
      <<"/", "*", "+", "/">>,               \* pair 0 opened, the end of pair 1
      <<"/", "+", "*", "/", "+", "/">>,     \* pair 1, the end of pair 0, closed
      <<"a">> }                             \* a word

PairTexts == {JoinLines(ls) : ls \in UNION {[1..k -> PairPool] : k \in 1..MaxPairLines}}

InitPairs ==
    /\ \E txt \in PairTexts : Fresh(txt, LangC)
    /\ fold_comments_ \in BOOLEAN

NextPairs == StyleNext
SpecPairs == InitPairs /\ [][NextPairs]_vars

----------------------------------------------------------------------------
(* Ranges of several lines with block delimiters and comments               *)

MaxFrameLen == 3    \* longest text of the line-record specification

\* LangC with block comments that open and close with one character
LangFrame == [LangC EXCEPT !.commentBeginL = << <<"(">> >>,
                           !.commentEndL = << <<")">> >>]

FrameAlphabet == {"{", "(", "/", NL}

InitFrame ==
    /\ \E txt \in Texts(FrameAlphabet, MaxFrameLen) : Fresh(txt, LangFrame)
    /\ fold_comments_ \in BOOLEAN

NextFrame == DoStyling
SpecFrame == InitFrame /\ [][NextFrame]_vars

----------------------------------------------------------------------------
(* Lines of one kind of token each                                          *)

MaxTokenLines == 2  \* most lines of a text of the token specification

TokenPool ==
    { <<>>,                             \* nothing but the line break
      <<" ">>,                          \* whitespace
      <<"{">>,                          \* a block delimiter
      <<"#">>,                          \* a sigil with no word
      <<"/", "/", "a">>,                \* a line comment
      <<"/", "/", "/", "a">>,           \* a doc comment
      <<"/", "*">>,                     \* a block comment that stays open
      <<"a", "*", "/">>,                \* the end of one, or a word and operators
      <<"/", "*", "a", "*", "/">>,      \* a block comment, opened and closed
      <<"a">>,                          \* a word
      <<"+">>,                          \* an operator
      <<DQUOTE, "a", DQUOTE>>,          \* a string
      <<SQUOTE, "a", SQUOTE>> }         \* a char literal

TokenTexts == {JoinLines(ls) : ls \in UNION {[1..k -> TokenPool] : k \in 1..MaxTokenLines}}

InitTokens ==
    /\ \E txt \in TokenTexts : Fresh(txt, LangC)
    /\ fold_comments_ \in BOOLEAN

NextTokens == StyleNext
SpecTokens == InitTokens /\ [][NextTokens]_vars

----------------------------------------------------------------------------
(* isFunction asked about ranges of the text                                *)

MaxQueryLen == 2    \* longest text of the specification of the base isFunction

\* the functions F and g, in a language with case and in one without
QueryLanguages ==
    {[LangC EXCEPT !.caseSensitive = cs, !.functions = << <<"F">>, <<"g">> >>] :
        cs \in BOOLEAN}

QueryAlphabet == {"F", "f", "g"}

InitQuery ==
    /\ \E txt \in Texts(QueryAlphabet, MaxQueryLen) : \E lang \in QueryLanguages :
          Fresh(txt, lang)
    /\ fold_comments_ = FALSE

\* isFunction(editor, start_pos, end_pos) on a lexer with a language
IsFunction ==
    /\ ~language_.null
    /\ \E start_pos \in 0..Len(text) : \E end_pos \in start_pos..Len(text) :
          \E r \in {isFunctionOf(Lx, text, start_pos, end_pos)} :
              /\ query' = [valid |-> TRUE, start_pos |-> start_pos,
                           end_pos |-> end_pos, ret |-> r.ret]
              /\ word_list_' = r.words
    /\ UNCHANGED <<text, styles, language_, preprocessor_char_, lines_,
                   curr_comment_idx_, fold_comments_, fold_preprocessor_, call,
                   phase, cursor, passed, zsVars, foldVars>>

NextQuery == IsFunction \/ StyleText
SpecQuery == InitQuery /\ [][NextQuery]_vars

----------------------------------------------------------------------------
(* Styling after another language, or none, was loaded over recorded lines  *)

MaxReloadLen == 3   \* longest text of the reloading specification

\* LangC with the first of its two block-comment pairs only
LangOnePair == [LangC EXCEPT !.commentBeginL = << <<"/", "*">> >>,
                             !.commentEndL = << <<"*", "/">> >>]

ReloadLanguages == {LangC, LangOnePair, NullLanguage}

ReloadAlphabet == {"/", "+", NL}

InitReload ==
    /\ \E txt \in Texts(ReloadAlphabet, MaxReloadLen) : Fresh(txt, LangC)
    /\ fold_comments_ = FALSE

\* loadLanguage(language) with any of the languages, or with none
Reload == \E lang \in ReloadLanguages : Load(lang)

NextReload == Reload \/ DoStyling
SpecReload == InitReload /\ [][NextReload]_vars

RECURSIVE passFrom(_, _, _, _)
\* the lexer and the styles after doStyling on line l and every line after it
passFrom(lx, sty, txt, l) ==
    IF l >= TextLines(txt) THEN [lx |-> lx, sty |-> sty]
    ELSE LET m == doStyling(lx, txt, LineStart(txt, l), LineLast(txt, l), NoUB)
         IN passFrom([lx EXCEPT !.lines = m.lines, !.cci = m.cci, !.words = m.words],
                     StyleRuns(sty, LineStart(txt, l), m.runs), txt, l + 1)

\* a top-to-bottom pass over the text by a lexer that has styled nothing yet
FreshPass ==
    passFrom([Lx EXCEPT !.lines = [l \in 0..GetLineCount(text) |-> DefaultLine],
                        !.cci = -1,
                        !.words = loadLanguage(language_)],
             [i \in 1..Len(text) |-> NoStyle], text, 0)

----------------------------------------------------------------------------
(* Properties of one doStyling call *)

RECURSIVE SumRuns(_)
SumRuns(runs) == IF runs = <<>> THEN 0 ELSE runs[1][1] + SumRuns(Tail(runs))

Last(seq) == seq[Len(seq)]
Front(seq) == SubSeq(seq, 1, Len(seq) - 1)

\* C1: the run lengths of a doStyling(start, end) call add up to end - start + 1
C1_ExactCoverage ==
    call.valid => SumRuns(call.runs) = call.end - call.start + 1

\* where the last run of the call starts
LastRunStart == call.start + SumRuns(Front(call.runs))

\* the end token of the comment that is open after the call
OpenEndToken == language_.commentEndL[curr_comment_idx_ + 1]
OpenBeginToken == language_.commentBeginL[curr_comment_idx_ + 1]

\* the last run is the text of a block comment still open at the range end: it
\* is styled Comment, it starts at the comment's begin token unless it continues
\* the comment of the line record, and no end token of its pair lies in it
OpenCommentAtEnd ==
    /\ call.runs # <<>>
    /\ Last(call.runs)[2] = "Comment"
    /\ LastRunStart + Last(call.runs)[1] >= call.end + 1
    /\ LET continued == call.state0 = "Comment" /\ Len(call.runs) = 1
           body == IF continued THEN LastRunStart
                   ELSE LastRunStart + Len(OpenBeginToken)
       IN  /\ continued \/ checkToken(text, LastRunStart, OpenBeginToken)
           /\ \A p \in body..(call.end - Len(OpenEndToken) + 1) :
                 ~checkToken(text, p, OpenEndToken)

\* C2: doStyling returns true exactly when the FSM state at the range end is
\* Comment, which is exactly when a block comment is open whose end delimiter
\* has not been seen
C2_ReturnsTrueIffInComment ==
    call.valid =>
        /\ call.ret <=> call.state = "Comment"
        /\ call.ret <=> curr_comment_idx_ >= 0
        /\ call.ret => OpenCommentAtEnd

\* a block comment of at least four characters whose end delimiter is the last
\* text of the range: the call returned false
C2_Witness ==
    /\ call.valid
    /\ ~call.ret
    /\ Len(call.runs) >= 2
    /\ Last(call.runs) = <<0, "Default">>
    /\ call.runs[Len(call.runs) - 1][2] = "Comment"
    /\ call.runs[Len(call.runs) - 1][1] >= 4
    /\ SumRuns(call.runs) = call.end - call.start + 1
    /\ checkToken(text, call.end - 1, <<"*", "/">>)

\* the call of the record made again from the line records it found, on a lexer
\* whose curr_comment_idx_ is cci
Recall(cci) ==
    LET m == doStyling([Lx EXCEPT !.lines = call.pre, !.cci = cci],
                       text, call.start, call.end, NoUB)
    IN <<m.state0, m.idx0, m.runs, m.state, m.lines, m.cci>>

\* C8: the initial FSM state and comment index of a call come from the record
\* of the starting line alone, and the call does the same whatever
\* curr_comment_idx_ was left by the call before
C8_InitialStateFromLine ==
    call.valid =>
        /\ call.pre[call.line].comment_idx >= 0 =>
              call.state0 = "Comment" /\ call.idx0 = call.pre[call.line].comment_idx
        /\ call.pre[call.line].comment_idx < 0 =>
              call.state0 = "Unknown" /\ call.idx0 = -1
        /\ \A cci \in -1..(Len(language_.commentBeginL) - 1) :
              Recall(cci) = <<call.state0, call.idx0, call.runs, call.state,
                              lines_, curr_comment_idx_>>

\* a call that found a curr_comment_idx_ other than the one it started with
C8_Witness ==
    /\ call.valid
    /\ call.leftover >= 0
    /\ call.idx0 # call.leftover

----------------------------------------------------------------------------
(* Properties of the calls for whole lines *)

\* the call of the record is for the line after the line of the call before it
CallForNextLine ==
    /\ call.valid
    /\ call.before.valid
    /\ call.line = call.before.line + 1
    /\ call.start = LineStart(text, call.line)

Before == call.before

\* the length of the comment text that starts the range of the call when the
\* comment of pair i is open: through the first end token of pair i, or all
CommentPrefix(i) ==
    LET token == language_.commentEndL[i + 1]
        ends == {p \in call.start..call.end : checkToken(text, p, token)}
    IN IF ends = {} THEN call.end - call.start + 1
       ELSE Min(ends) - call.start + Len(token)

\* C3: a call that ends inside a block comment of pair i leaves i in the record
\* of the next line, and the call for that next line starts in Comment with i
\* and styles Comment through the first end token of pair i
C3_CommentContinues ==
    /\ call.valid /\ call.ret =>
          /\ lines_[call.line + 1].comment_idx = curr_comment_idx_
          /\ curr_comment_idx_ >= 0
          /\ call.state0 = "Comment" /\ Len(call.runs) = 1 => curr_comment_idx_ = call.idx0
          /\ ~(call.state0 = "Comment" /\ Len(call.runs) = 1) =>
                checkTokenL(text, LastRunStart, language_.commentBeginL) = curr_comment_idx_
    /\ CallForNextLine /\ Before.ret =>
          /\ call.pre[call.line].comment_idx = Before.idx
          /\ call.state0 = "Comment"
          /\ call.idx0 = Before.idx
          /\ call.runs[1] = <<CommentPrefix(Before.idx), "Comment">>

\* the line before ended inside a comment of pair 1, and the call closed it
\* before the end of its line
C3_Witness ==
    /\ CallForNextLine
    /\ Before.ret
    /\ Before.idx = 1
    /\ call.runs[1][1] < call.end - call.start + 1
    /\ ~call.ret

\* C4: after a call that returns false the record of the next line has no
\* comment index
C4_NextLineCleared ==
    call.valid /\ ~call.ret => lines_[call.line + 1].comment_idx = -1

\* C5: the same range styled twice in a row on an unchanged text: the second
\* call emits the runs of the first, returns what it returned and leaves lines_
\* as the first left it
C5_Idempotent ==
    [][(/\ call.valid
        /\ call'.valid
        /\ call'.start = call.start
        /\ call'.end = call.end
        /\ text' = text)
       => (/\ call'.runs = call.runs
           /\ call'.ret = call.ret
           /\ lines_' = lines_)]_vars

\* C6: after the pass, a line has a comment index exactly when the call for the
\* line before it ended inside a block comment, and it is that comment's index
C6_IndexWhereInComment ==
    phase = "passed" =>
        /\ lines_[0].comment_idx = -1
        /\ \A l \in 1..(TextLines(text) - 1) :
              /\ lines_[l].comment_idx # -1 <=> passed[l].ret
              /\ passed[l].ret => lines_[l].comment_idx = passed[l].idx

\* C7: after the pass, an edit and the restyling of the edited line and of the
\* lines after it while doStyling returns true, styles and lines_ are those of
\* a pass over the edited text by a lexer that has styled nothing yet
C7_RestyleEqualsFreshPass ==
    phase = "done" =>
        /\ styles = FreshPass.sty
        /\ lines_ = FreshPass.lx.lines

----------------------------------------------------------------------------
(* Properties of words *)

\* text[p..q] (0-based, inclusive) is a run of word characters that no word
\* character precedes or follows
MaximalWord(p, q) ==
    /\ p <= q
    /\ \A k \in p..q : GetCharAt(text, k) \in word_chars_
    /\ GetCharAt(text, p - 1) \notin word_chars_
    /\ GetCharAt(text, q + 1) \notin word_chars_

TokenAt(p, q) == SubSeq(text, p + 1, q + 1)

\* the token is one of the language's keywords under its case rule
IsKeyword(token) ==
    \E k \in SeqToSet(language_.keywords) :
        IF language_.caseSensitive THEN token = k ELSE lower(token) = lower(k)

\* position p is not inside a string (the texts of the word specification have
\* neither comments nor char literals)
OutsideString(p) == Cardinality({k \in 0..(p - 1) : GetCharAt(text, k) = DQUOTE}) % 2 = 0

StyledKeyword(p, q) == \A k \in p..q : styles[k + 1] = "Keyword"

Positions == 0..(Len(text) - 1)

\* C9 as claimed: every maximal word token outside strings that equals a
\* keyword is styled Keyword
C9_KeywordAlwaysStyled ==
    call.valid =>
        \A p \in Positions : \A q \in Positions :
            MaximalWord(p, q) /\ IsKeyword(TokenAt(p, q)) /\ OutsideString(p)
                => StyledKeyword(p, q)

\* C9 as amended: ... unless the preprocessor character stands right before it
C9_KeywordStyledUnlessSigil ==
    call.valid =>
        \A p \in Positions : \A q \in Positions :
            /\ MaximalWord(p, q)
            /\ IsKeyword(TokenAt(p, q))
            /\ OutsideString(p)
            /\ GetCharAt(text, p - 1) # preprocessor_char_
            => StyledKeyword(p, q)

\* a keyword written in another case than listed, whitespace on both sides
C9_Witness ==
    /\ call.valid
    /\ ~language_.caseSensitive
    /\ \E p \in Positions : \E q \in Positions :
          /\ MaximalWord(p, q)
          /\ TokenAt(p, q) = <<"i", "F">>
          /\ GetCharAt(text, p - 1) = " "
          /\ GetCharAt(text, q + 1) = " "
          /\ StyledKeyword(p, q)

----------------------------------------------------------------------------
(* Properties of the word table *)

\* the key addWord files a word under
KeyOf(word) == IF language_.caseSensitive THEN word ELSE lower(word)

Listed(list, key) == \E w \in SeqToSet(list) : KeyOf(w) = key

\* the style of the last list, in the order Constant, Property, Function, Type,
\* Keyword, that has the key
LastListed(key) ==
    IF Listed(language_.keywords, key) THEN "Keyword"
    ELSE IF Listed(language_.types, key) THEN "Type"
    ELSE IF Listed(language_.functions, key) THEN "Function"
    ELSE IF Listed(language_.properties, key) THEN "Property"
    ELSE IF Listed(language_.constants, key) THEN "Constant"
    ELSE NoStyle

Keys == {<<"a">>, <<"A">>}

\* C10: after loadLanguage a token has the style of the last list that has it:
\* Keyword before Type before Function before Property before Constant
C10_LastListWins ==
    ~language_.null =>
        \A key \in Keys : wordStyle(word_list_, key) = LastListed(key)

\* a token that is a constant, a function and a type, and has the style Type
C10_Witness ==
    /\ ~language_.null
    /\ \E key \in Keys :
          /\ Listed(language_.constants, key)
          /\ Listed(language_.functions, key)
          /\ Listed(language_.types, key)
          /\ ~Listed(language_.keywords, key)
          /\ wordStyle(word_list_, key) = "Type"

\* the key is listed in one of the word lists of the language
ListedAnywhere(key) ==
    \/ Listed(language_.constants, key)
    \/ Listed(language_.properties, key)
    \/ Listed(language_.functions, key)
    \/ Listed(language_.types, key)
    \/ Listed(language_.keywords, key)

\* C11: whatever was loaded and styled before, the word table gives a style, and
\* the function list a place, only to words of the language loaded last; with
\* no language both are empty
C11_OnlyLastLanguage ==
    /\ \A key \in DOMAIN word_list_ :
          word_list_[key] # NoStyle => ListedAnywhere(key)
    /\ \A i \in 1..Len(functions_) : Listed(language_.functions, functions_[i])
    /\ language_.null => word_list_ = <<>> /\ functions_ = <<>>

\* a ZScriptLexer that styled "a" as a keyword of LangA and has LangB loaded
\* now: "a" has no style in the table and "f" is no function any more
C11_Witness ==
    /\ zscript
    /\ language_ = LangB
    /\ \E p \in Positions : text[p + 1] = "a" /\ styles[p + 1] = "Keyword"
    /\ wordStyle(word_list_, <<"a">>) = NoStyle
    /\ functions_ = << <<"g">> >>

\* C12: no styling call changes the word table: its keys and their styles are
\* the same after the call as before it
C12_WordTableUntouched == [][word_list_' = word_list_]_vars

----------------------------------------------------------------------------
(* Properties of numbers *)

\* the word stands at p with a blank or an end of the text on both sides
Occurs(word, p) ==
    /\ p + Len(word) <= Len(text)
    /\ SubSeq(text, p + 1, p + Len(word)) = word
    /\ p = 0 \/ text[p] = " "
    /\ p + Len(word) = Len(text) \/ text[p + Len(word) + 1] = " "

\* wherever the word occurs, each of its characters has the style
ClassifiedAs(word, style) ==
    \A p \in Positions :
        Occurs(word, p) => \A k \in 1..Len(word) : styles[p + k] = style

\* C13: after styling, 123, +007, 0x1F and 12.5e-3 are Number and 12abc is Default
C13_NumericClassification ==
    call.valid =>
        /\ ClassifiedAs(<<"1", "2", "3">>, "Number")
        /\ ClassifiedAs(<<"+", "0", "0", "7">>, "Number")
        /\ ClassifiedAs(<<"0", "x", "1", "F">>, "Number")
        /\ ClassifiedAs(<<"1", "2", ".", "5", "e", "-", "3">>, "Number")
        /\ ClassifiedAs(<<"1", "2", "a", "b", "c">>, "Default")

----------------------------------------------------------------------------
(* Properties of ZScriptLexer *)

RECURSIVE NextNonWhitespace(_)
\* the first character at or after p that is no whitespace (NUL if none)
NextNonWhitespace(p) ==
    IF p >= Len(text) THEN NUL
    ELSE IF text[p + 1] \in whitespace_chars_ THEN NextNonWhitespace(p + 1)
    ELSE text[p + 1]

\* the style of the base policy: word table, Preprocessor, Number, Default
BaseStyle(token) ==
    IF wordStyle(word_list_, KeyOf(token)) # NoStyle THEN wordStyle(word_list_, KeyOf(token))
    ELSE IF startsWith(KeyOf(token), language_.preprocessor) THEN "Preprocessor"
    ELSE IF isInteger(token) \/ isFloat(token) THEN "Number"
    ELSE "Default"

\* the word at p..q, a whole word of the text, lies in the range of the call
WordInCall(p, q) == MaximalWord(p, q) /\ call.start <= p /\ q <= call.end

IsFunctionName(token) == \E i \in 1..Len(functions_) : functions_[i] = KeyOf(token)

\* C14: a ZScriptLexer styles a word that is a function name as Function when
\* the next character that is no whitespace is '(', and by the base policy when
\* it is not
C14_FunctionNeedsParen ==
    zscript /\ call.valid =>
        \A p \in Positions : \A q \in Positions :
            WordInCall(p, q) /\ IsFunctionName(TokenAt(p, q)) =>
                \A k \in p..q :
                    styles[k + 1] = IF NextNonWhitespace(q + 1) = "("
                                    THEN "Function"
                                    ELSE BaseStyle(TokenAt(p, q))

\* the same for calls whose range ends where the text ends
C14_FunctionNeedsParenWholeText ==
    zscript /\ call.valid /\ call.end = Len(text) - 1 =>
        \A p \in Positions : \A q \in Positions :
            WordInCall(p, q) /\ IsFunctionName(TokenAt(p, q)) =>
                \A k \in p..q :
                    styles[k + 1] = IF NextNonWhitespace(q + 1) = "("
                                    THEN "Function"
                                    ELSE BaseStyle(TokenAt(p, q))

----------------------------------------------------------------------------
(* Properties of updateFolding *)

\* the SetFoldLevel calls of the last updateFolding, and those made at line l
Writes == {folding.writes[i] : i \in 1..Len(folding.writes)}
WritesAt(l) == {w \in Writes : w.at = l}

\* the lines the last updateFolding went over
FoldedLines == folding.line_start..(GetLineCount(text) - 1)

\* C15 as claimed: no level written by updateFolding(line_start) is lower than
\* the level it read for line_start
C15_NeverBelowStartLevel ==
    folding.valid => \A w \in Writes : w.level >= folding.base

\* C15 as amended: no level written by updateFolding, and no level a line has,
\* is lower than wxSTC_FOLDLEVELBASE
C15_NeverBelowBase ==
    /\ folding.valid => \A w \in Writes : w.level >= wxSTC_FOLDLEVELBASE
    /\ \A l \in DOMAIN fold_levels : fold_levels[l].level >= wxSTC_FOLDLEVELBASE

\* an updateFolding from the base level over a line that closes two blocks, and
\* a level written after it
C15_Witness ==
    /\ folding.valid
    /\ folding.base = wxSTC_FOLDLEVELBASE
    /\ \E l \in FoldedLines :
          /\ lines_[l].fold_increment = -2
          /\ \E w \in Writes : w.at = l + 1 /\ w.level = wxSTC_FOLDLEVELBASE

RECURSIVE LevelAt(_)
\* the level the last updateFolding came to line l with
LevelAt(l) ==
    IF l = folding.line_start THEN folding.base
    ELSE LET raw == LevelAt(l - 1) + lines_[l - 1].fold_increment
         IN IF raw < wxSTC_FOLDLEVELBASE THEN wxSTC_FOLDLEVELBASE ELSE raw

\* the increment of line l raises the level
Raises(l) == LevelAt(l + 1) > LevelAt(l)

\* C16: a line that raises the level gets the header flag if it has a word, or
\* else the line before it gets the flag and the line itself does not; a line
\* that does not raise the level is written without the flag
C16_HeaderPlacement ==
    folding.valid =>
        \A l \in FoldedLines :
            IF Raises(l)
            THEN IF lines_[l].has_word
                 THEN \E w \in WritesAt(l) : w.line = l /\ w.header
                 ELSE /\ l - 1 \in DOMAIN fold_levels
                      /\ \E w \in WritesAt(l) : w.line = l - 1 /\ w.header
                      /\ \E w \in WritesAt(l) : w.line = l /\ ~w.header
                      /\ \A w \in WritesAt(l) : w.line = l => ~w.header
            ELSE /\ WritesAt(l) # {}
                 /\ \A w \in WritesAt(l) : w.line = l /\ ~w.header

\* C17: updateFolding changes no line record, no word of the word table and no
\* function of the function list
C17_FoldingReadsOnly ==
    [][phase = "passed" =>
          lines_' = lines_ /\ word_list_' = word_list_ /\ functions_' = functions_]_vars

\* an updateFolding that wrote a header over lines with increments
C17_Witness ==
    /\ folding.valid
    /\ \E w \in Writes : w.header /\ w.line \in DOMAIN fold_levels
    /\ \E l \in FoldedLines : lines_[l].fold_increment > 0
    /\ \E l \in FoldedLines : lines_[l].fold_increment < 0

----------------------------------------------------------------------------
(* Properties of the fold increment *)

RECURSIVE WordEnd(_)
\* the last position of the word that starts at p
WordEnd(p) == IF GetCharAt(text, p + 1) \in word_chars_ THEN WordEnd(p + 1) ELSE p

\* what the block keyword lists give for a word
KeywordFold(word) ==
    IF lower(word) \in SeqToSet(language_.wordBlockBegin) THEN 1
    ELSE IF lower(word) \in SeqToSet(language_.wordBlockEnd) THEN -1
    ELSE 0

RECURSIVE Blocks(_, _, _, _, _)
\* the range from p to end read by the lexical structure alone; in is "code",
\* "string", "char" or "comment" (of pair idx).  Of what lies in code, r.blocks
\* is +1 for every block-begin token or keyword and -1 for every block-end token
\* or keyword, r.at the positions of the delimiters counted, r.tokens whether
\* there is a word, an operator, a string or a char literal; r.opens and
\* r.closes count the block comments that begin and that end
Blocks(p, end, in, idx, r) ==
    LET c == GetCharAt(text, p)
        i == checkTokenL(text, p, language_.commentBeginL)
    IN
    IF p > end THEN r
    ELSE IF in = "string"
    THEN Blocks(p + 1, end, IF c = DQUOTE THEN "code" ELSE in, idx, r)
    ELSE IF in = "char"
    THEN Blocks(p + 1, end, IF c = SQUOTE THEN "code" ELSE in, idx, r)
    ELSE IF in = "comment"
    THEN IF checkToken(text, p, language_.commentEndL[idx + 1])
         THEN Blocks(p + Len(language_.commentEndL[idx + 1]), end, "code", -1,
                     [r EXCEPT !.closes = @ + 1])
         ELSE Blocks(p + 1, end, in, idx, r)
    ELSE IF c = DQUOTE THEN Blocks(p + 1, end, "string", idx, [r EXCEPT !.tokens = TRUE])
    ELSE IF c = SQUOTE THEN Blocks(p + 1, end, "char", idx, [r EXCEPT !.tokens = TRUE])
    ELSE IF i >= 0
    THEN Blocks(p + Len(language_.commentBeginL[i + 1]), end, "comment", i,
                [r EXCEPT !.opens = @ + 1])
    ELSE IF \/ checkToken(text, p, language_.docComment)
            \/ checkTokenL(text, p, language_.lineCommentL) >= 0
    THEN r
    ELSE IF c \in word_chars_
    THEN Blocks(WordEnd(p) + 1, end, in, idx,
                [r EXCEPT !.blocks = @ + KeywordFold(TokenAt(p, WordEnd(p))),
                          !.tokens = TRUE])
    ELSE IF c \in operator_chars_
    THEN Blocks(p + 1, end, in, idx, [r EXCEPT !.tokens = TRUE])
    ELSE IF checkToken(text, p, language_.blockBegin)
    THEN Blocks(p + 1, end, in, idx, [r EXCEPT !.blocks = @ + 1, !.at = @ \cup {p}])
    ELSE IF checkToken(text, p, language_.blockEnd)
    THEN Blocks(p + 1, end, in, idx, [r EXCEPT !.blocks = @ - 1, !.at = @ \cup {p}])
    ELSE Blocks(p + 1, end, in, idx, r)

\* the same for the range of the call, entered as the call was
BlocksOfCall ==
    Blocks(call.start, call.end,
           IF call.state0 = "Comment" THEN "comment" ELSE "code", call.idx0,
           [blocks |-> 0, at |-> {}, tokens |-> FALSE, opens |-> 0, closes |-> 0])

\* what the block comments of the call add, if they fold
CommentsOfCall ==
    IF fold_comments_ THEN BlocksOfCall.opens - BlocksOfCall.closes ELSE 0

\* C18: after doStyling of a line its fold increment is the number of block
\* begins minus the number of block ends outside strings, char literals and
\* comments, plus the block comments, and the delimiters counted are Default
C18_FoldIncrementCountsBlocks ==
    call.valid =>
        /\ lines_[call.line].fold_increment = BlocksOfCall.blocks + CommentsOfCall
        /\ \A p \in BlocksOfCall.at : styles[p + 1] = "Default"

\* C19: with comment folding every block comment that opens on the line adds 1
\* and makes has_word true, every one that closes takes 1, also on a line
\* entered in a comment; without comment folding block comments change neither
\* the fold increment nor has_word
C19_CommentFolding ==
    call.valid =>
        IF fold_comments_
        THEN /\ lines_[call.line].fold_increment - BlocksOfCall.blocks
                    = BlocksOfCall.opens - BlocksOfCall.closes
             /\ BlocksOfCall.opens > 0 => lines_[call.line].has_word
        ELSE /\ lines_[call.line].fold_increment = BlocksOfCall.blocks
             /\ lines_[call.line].has_word = BlocksOfCall.tokens

\* with comment folding, a line with nothing but a block comment that opens
\* and closes
C19_WitnessOneLine ==
    /\ call.valid
    /\ fold_comments_
    /\ BlocksOfCall.closes = 1 /\ BlocksOfCall.opens = 1
    /\ lines_[call.line].fold_increment = 0
    /\ lines_[call.line].has_word

\* with comment folding, a line entered in a block comment that closes it and
\* has nothing else: its increment is -1
C19_Witness ==
    /\ call.valid
    /\ fold_comments_
    /\ call.state0 = "Comment"
    /\ BlocksOfCall.closes = 1 /\ BlocksOfCall.opens = 0
    /\ ~BlocksOfCall.tokens
    /\ lines_[call.line].fold_increment = -1

----------------------------------------------------------------------------
(* The scenario *)

\* the last call styled the line of the scenario
ScenarioStyled ==
    /\ call.valid
    /\ LineText(text, call.line) = Scenario \o <<NL>>
    /\ call.start = LineStart(text, call.line)
    /\ call.end = LineLast(text, call.line)

\* C20: styling "if (x) { // comment" gives Keyword for "if", Default for "{",
\* Comment from "//" through the end of the line, fold increment 1, has_word
\* true, and returns false
C20_Scenario ==
    ScenarioStyled =>
        /\ styles[call.start + 1] = "Keyword" /\ styles[call.start + 2] = "Keyword"
        /\ styles[call.start + 8] = "Default"
        /\ \A p \in (call.start + 9)..call.end : styles[p + 1] = "Comment"
        /\ lines_[call.line].fold_increment = 1
        /\ lines_[call.line].has_word
        /\ ~call.ret

\* the line of the scenario styled after another line, with an "else" below it
C20_Witness ==
    /\ ScenarioStyled
    /\ call.line = 1
    /\ LineText(text, 2) = <<"e", "l", "s", "e", NL>>
    /\ \E i \in 1..Len(call.runs) : call.runs[i] = <<2, "Keyword">>
    /\ Last(call.runs)[2] = "Comment"

\* the characters of positions from..(p - 1) of the text that are double quotes
QuotesBefore(from, p) == Cardinality({q \in from..(p - 1) : GetCharAt(text, q) = DQUOTE})

\* position p is a quote or between an opening quote of the range and its end
InsideString(from, p) ==
    GetCharAt(text, p) = DQUOTE \/ QuotesBefore(from, p) % 2 = 1

\* C21: a doStyling made while no language is loaded, from any record of the
\* starting line, completes, styles the characters of double-quoted strings as
\* String and every other character of the range as Default, and records fold
\* increment 0 for the line
C21_NoLanguageFailSoft ==
    [][(language_.null /\ call' # call) =>
          /\ ~call'.error
          /\ \A p \in call'.start..call'.end :
                styles'[p + 1] = IF InsideString(call'.start, p)
                                 THEN "String" ELSE "Default"
          /\ lines_'[call'.line].fold_increment = 0]_vars

\* the same for the calls that start on a line recorded outside a comment
C21_NoLanguageFromUnknown ==
    [][(language_.null /\ call' # call /\ call'.state0 = "Unknown") =>
          /\ ~call'.error
          /\ \A p \in call'.start..call'.end :
                styles'[p + 1] = IF InsideString(call'.start, p)
                                 THEN "String" ELSE "Default"
          /\ lines_'[call'.line].fold_increment = 0]_vars

\* the position the i-th process* step of the call was entered with, and for
\* i one past the last step the position the call ended at
PositionAt(i) == IF i <= Len(call.trace) THEN call.trace[i][2] ELSE call.position

Consumes(i) == PositionAt(i + 1) > PositionAt(i)

\* of any three steps in a row one consumes a character or ends the loop (an
\* Operator or Whitespace step entered after its only character consumes
\* nothing and gives way to Unknown, which may give way to Word without
\* consuming either), so the steps are at most three for each character of the
\* range, and the one that finds the end
Progress ==
    /\ Len(call.trace) <= 3 * (call.end - call.start + 1) + 1
    /\ \A i \in 1..(Len(call.trace) - 1) :
          \E k \in 0..2 :
              /\ i + k <= Len(call.trace)
              /\ (Consumes(i + k) \/ i + k = Len(call.trace))

\* C22: every doStyling call reaches the end of its dispatch loop, after a
\* number of process* steps bounded by the length of the range, each step
\* consuming a character or switching to a state that leads to one consumed
C22_Terminates == call.valid => ~call.error /\ Progress

\* the same for the calls that are not stopped by an undefined read
C22_TerminatesWhereDefined == (call.valid /\ ~call.error) => Progress

\* where the i-th run of the call starts
RunStart(i) == call.from + SumRuns(SubSeq(call.runs, 1, i - 1))

\* the positions of the i-th run of the call
RunPositions(i) == RunStart(i)..(RunStart(i) + call.runs[i][1] - 1)

\* the call ended inside a string or char literal that was not closed
UnterminatedLiteral == call.state \in {"String", "Char"}

\* C23: no String or Char run of a doStyling call contains a line break, and
\* a string or char literal that is not closed on the line of the call leaves
\* the line after it starting in the Unknown state
C23_LiteralsStayOnLine ==
    (call.valid /\ ~call.error) =>
        /\ \A i \in 1..Len(call.runs) :
              call.runs[i][2] \in {"String", "Char"} =>
                  \A p \in RunPositions(i) : GetCharAt(text, p) # NL
        /\ UnterminatedLiteral => initialState(lines_, call.line + 1) = "Unknown"

\* the second half alone: after a literal that the range end cut, the line
\* after the line of the call starts in the Unknown state
C23_NextLineUnknown ==
    (call.valid /\ ~call.error /\ UnterminatedLiteral) =>
        initialState(lines_, call.line + 1) = "Unknown"

\* doStyling(0, end) on the lexer as the call of the record found it
FromZero ==
    doStyling([Lx EXCEPT !.lines = call.pre, !.cci = call.leftover],
              text, 0, call.end, NoUB)

\* C24: a doStyling(start, end) with start < 0 does what doStyling(0, end)
\* does: the same StartStyling position, the same runs, the same line records
\* and the same return value
C24_NegativeStartClamped ==
    (call.valid /\ call.start < 0) =>
        /\ call.from = 0
        /\ call.runs = FromZero.runs
        /\ lines_ = FromZero.lines
        /\ curr_comment_idx_ = FromZero.cci
        /\ call.ret = stillInComment(FromZero)

\* a call with a negative start that opened a comment and left it open
C24_Witness ==
    /\ call.valid /\ call.start < 0
    /\ call.ret
    /\ Len(call.runs) > 1
    /\ lines_[1].comment_idx = 0

\* the call ended in the line-comment branch of processUnknown: it is the only
\* step that emits a Comment run and leaves the FSM state Unknown at the end
LineCommentStep ==
    /\ call.valid /\ ~call.error
    /\ Len(call.runs) >= 2
    /\ Last(call.runs)[2] = "Comment"
    /\ call.state = "Unknown"

\* the last position of the last run of the call
LastRunEnd == LastRunStart + Last(call.runs)[1] - 1

\* the last position of the line the last run starts on
TokenLineEnd == LineLast(text, LineFromPosition(text, LastRunStart))

\* C25: at a line-comment token the scanner in Unknown state styles the
\* unknown run before it as Default and the characters from the token through
\* the end of the line (or of the range, where that comes first) as Comment,
\* and the pass ends with FSM state Unknown and return value false; no
\* character after the end of the line is styled Comment
C25_LineCommentToLineEnd ==
    LineCommentStep =>
        /\ checkTokenL(text, LastRunStart, language_.lineCommentL) >= 0
        /\ call.runs[Len(call.runs) - 1][2] = "Default"
        /\ LastRunEnd = Min({call.end, TokenLineEnd})
        /\ ~call.ret

\* what the step does: the Comment run goes through the end of the range
C25_LineCommentToRangeEnd ==
    LineCommentStep =>
        /\ checkTokenL(text, LastRunStart, language_.lineCommentL) >= 0
        /\ call.runs[Len(call.runs) - 1][2] = "Default"
        /\ LastRunEnd = call.end
        /\ ~call.ret

\* the i-th step of the call is a processUnknown entered at a position of
\* the range
UnknownAt(i) ==
    /\ i \in 1..Len(call.trace)
    /\ call.trace[i][1] = "Unknown"
    /\ call.trace[i][2] <= call.end

\* the block comment whose begin token matches at position p is entered: the
\* next step is processComment, after the token
EntersComment(i, p) ==
    LET idx == checkTokenL(text, p, language_.commentBeginL)
    IN /\ i < Len(call.trace)
       /\ call.trace[i + 1] = <<"Comment", p + Len(language_.commentBeginL[idx + 1])>>

\* the step styles position p and the rest of its line, as far as the range
\* goes, with the style, and ends the call
StylesRestOfLine(i, p, style) ==
    /\ i = Len(call.trace)
    /\ Last(call.runs) = <<call.end - p + 1, style>>
    /\ \A q \in p..Min({call.end, LineLast(text, LineFromPosition(text, p))}) :
          styles[q + 1] = style

\* C26: where the scanner in Unknown state is at a position at which the
\* doc-comment token matches, the rest of the line is styled CommentDoc, a
\* line-comment token matching there or not; a block-comment begin token that
\* matches there goes before both
C26_TokenPrecedence ==
    (call.valid /\ ~call.error) =>
        \A i \in 1..Len(call.trace) :
            UnknownAt(i) =>
                LET p == call.trace[i][2]
                IN  IF checkTokenL(text, p, language_.commentBeginL) >= 0
                    THEN EntersComment(i, p)
                    ELSE IF checkToken(text, p, language_.docComment)
                    THEN StylesRestOfLine(i, p, "CommentDoc")
                    ELSE checkTokenL(text, p, language_.lineCommentL) >= 0 =>
                            StylesRestOfLine(i, p, "Comment")

\* a doc comment where the line-comment token matches too
C26_WitnessDoc ==
    /\ call.valid /\ ~call.error
    /\ \E i \in 1..Len(call.trace) :
          /\ UnknownAt(i)
          /\ checkToken(text, call.trace[i][2], language_.docComment)
          /\ checkTokenL(text, call.trace[i][2], language_.lineCommentL) >= 0
          /\ StylesRestOfLine(i, call.trace[i][2], "CommentDoc")

\* a block comment entered where the doc-comment and line-comment tokens match
C26_Witness ==
    /\ call.valid /\ ~call.error
    /\ \E i \in 1..Len(call.trace) :
          /\ UnknownAt(i)
          /\ checkToken(text, call.trace[i][2], language_.docComment)
          /\ checkTokenL(text, call.trace[i][2], language_.lineCommentL) >= 0
          /\ checkTokenL(text, call.trace[i][2], language_.commentBeginL) >= 0
          /\ EntersComment(i, call.trace[i][2])

RECURSIVE WordRunEnd(_)
\* the last position of the word characters that start at p, within the range
WordRunEnd(p) ==
    IF p + 1 <= call.end /\ GetCharAt(text, p + 1) \in word_chars_
    THEN WordRunEnd(p + 1) ELSE p

\* the sigil at p has a word character of the range right after it
SigilBeforeWord(p) ==
    /\ p \in call.from..call.end
    /\ GetCharAt(text, p) = preprocessor_char_
    /\ p + 1 <= call.end
    /\ GetCharAt(text, p + 1) \in word_chars_

\* the sigil at p has no word character of the range after it
SigilAlone(p) ==
    /\ p \in call.from..call.end
    /\ GetCharAt(text, p) = preprocessor_char_
    /\ ~SigilBeforeWord(p)

\* the style styleWord gives a token that starts with the sigil
SigilWordStyle(token) ==
    IF wordStyle(word_list_, token) # NoStyle
    THEN wordStyle(word_list_, token) ELSE "Preprocessor"

\* C27: a sigil with a word character right after it is emitted with the word
\* as one run of length 1 + word length, in the style styleWord gives the
\* token (Preprocessor when it is not in the word table), and the run before
\* is a Default run that ends before the sigil; a sigil with anything else
\* after it is styled Default
C27_SigilAbsorbed ==
    (call.valid /\ ~call.error) =>
        \A p \in call.from..call.end :
            /\ SigilBeforeWord(p) =>
                  \E i \in 2..Len(call.runs) :
                      /\ RunStart(i) = p
                      /\ call.runs[i] =
                            <<WordRunEnd(p + 1) - p + 1,
                              SigilWordStyle(SubSeq(text, p + 1, WordRunEnd(p + 1) + 1))>>
                      /\ call.runs[i - 1][2] = "Default"
            /\ SigilAlone(p) => styles[p + 1] = "Default"

\* a text with a sigil word of the table, a sigil word that is not in it, and
\* a sigil with a blank after it
C27_Witness ==
    /\ call.valid /\ ~call.error
    /\ language_ = LangSigilWord
    /\ text = <<"#", "a", "#", " ">>
    /\ call.end = 3
    /\ call.runs = << <<0, "Default">>, <<2, "Keyword">>, <<1, "Default">>,
                      <<1, "Default">> >>

\* the text of the i-th run of the call
RunText(i) == SubSeq(text, RunStart(i) + 1, RunStart(i) + call.runs[i][1])

\* the i-th run of the call is a word: it has characters and starts with a
\* word character (the texts of the specification have no comments, strings
\* or char literals)
WordRun(i) ==
    /\ call.runs[i][1] > 0
    /\ GetCharAt(text, RunStart(i)) \in word_chars_

\* the style of a word where no word is a preprocessor word
PlainWordStyle(token) ==
    IF wordStyle(word_list_, token) # NoStyle THEN wordStyle(word_list_, token)
    ELSE IF isInteger(token) \/ isFloat(token) THEN "Number"
    ELSE "Default"

\* C28: with an empty preprocessor string no character is taken as a sigil
\* and no run is styled Preprocessor: a word has the style of the word table,
\* Number if it is numeric, Default otherwise
C28_EmptyPreprocessorNeverMatches ==
    (call.valid /\ language_.preprocessor = <<>>) =>
        \A i \in 1..Len(call.runs) :
            /\ call.runs[i][2] # "Preprocessor"
            /\ WordRun(i) => call.runs[i][2] = PlainWordStyle(RunText(i))

\* the first half alone: no character is taken as a sigil, every word run
\* starts with a word character and is as long as the word
C28_NoSigil ==
    (call.valid /\ language_.preprocessor = <<>>) =>
        \A i \in 1..Len(call.runs) :
            call.runs[i][2] \notin {"Default", "Operator"} =>
                /\ WordRun(i)
                /\ RunStart(i) + call.runs[i][1] - 1 = WordRunEnd(RunStart(i))

\* the word read by the i-th step of the call, a processWord
WordOfStep(i) == SubSeq(text, PositionAt(i) + 1, PositionAt(i + 1))

\* +1 for a word of the begin list, -1 for one of the end list, 0 otherwise
PairFold(token, begin, end) ==
    IF token \in SeqToSet(begin) THEN 1
    ELSE IF token \in SeqToSet(end) THEN -1
    ELSE 0

\* what the claim has a word add to the fold increment
ClaimedWordFold(token) ==
    IF fold_preprocessor_ /\ token[1] = preprocessor_char_
    THEN PairFold(lower(token), language_.ppBlockBegin, language_.ppBlockEnd)
    ELSE PairFold(lower(token), language_.wordBlockBegin, language_.wordBlockEnd)

RECURSIVE SumWordFolds(_)
\* the sum of it over the processWord steps of the call from the i-th on
SumWordFolds(i) ==
    IF i > Len(call.trace) THEN 0
    ELSE (IF call.trace[i][1] = "Word" THEN ClaimedWordFold(WordOfStep(i)) ELSE 0)
         + SumWordFolds(i + 1)

\* the fold increment recorded for the line of the call is the sum of what
\* the claim has its words add (the texts have no other token that folds)
FoldIsSumOfWordFolds ==
    (call.valid /\ ~call.error) =>
        lines_[call.line].fold_increment = SumWordFolds(1)

\* C29: every word token of a call adds +1 or -1 to the fold increment by one
\* pair of lists only, the preprocessor lists if preprocessor folding is on
\* and the token starts with the sigil, the word lists otherwise, and nothing
\* if it is in neither list of that pair
C29_OnePairOfLists == [][call' # call => FoldIsSumOfWordFolds']_vars

\* preprocessor folding on: #b opens by the preprocessor lists though the
\* word lists have it as an end, and b after it opens by the word lists
C29_Witness ==
    /\ call.valid /\ ~call.error
    /\ fold_preprocessor_
    /\ text = <<"#", "b", " ", "b">>
    /\ call.end = 3
    /\ lines_[0].fold_increment = 2

\* preprocessor folding off: the same #b closes by the word lists
C29_WitnessOff ==
    /\ call.valid /\ ~call.error
    /\ ~fold_preprocessor_
    /\ text = <<"#", "b", " ", "b">>
    /\ call.end = 3
    /\ lines_[0].fold_increment = 0

\* the i-th step of the call is a processComment for a comment of pair idx:
\* the call began inside it, or the step before entered it at its begin token,
\* the first of the list that matches there
CommentStepOf(i, idx) ==
    /\ i \in 1..Len(call.trace)
    /\ call.trace[i][1] = "Comment"
    /\ idx \in 0..(Len(language_.commentBeginL) - 1)
    /\ IF i = 1 THEN call.idx0 = idx
       ELSE checkTokenL(text, PositionAt(i) - Len(language_.commentBeginL[idx + 1]),
                        language_.commentBeginL) = idx

\* the positions of the range from p on where the end token of pair idx is
EndsOf(idx, p) ==
    {q \in p..call.end : checkToken(text, q, language_.commentEndL[idx + 1])}

\* the step runs to the first end token of its own pair, or with none in the
\* range leaves the comment open for the next line
ClosedByOwnEnd(i, idx) ==
    IF EndsOf(idx, PositionAt(i)) = {}
    THEN /\ i = Len(call.trace)
         /\ call.ret
         /\ curr_comment_idx_ = idx
         /\ lines_[call.line + 1].comment_idx = idx
    ELSE /\ PositionAt(i + 1) =
               Min(EndsOf(idx, PositionAt(i))) + Len(language_.commentEndL[idx + 1])
         /\ i < Len(call.trace)
         /\ call.trace[i + 1][1] = "Unknown"

\* every character the step reads is styled Comment
CommentThrough(i) ==
    \A q \in PositionAt(i)..(PositionAt(i + 1) - 1) :
        q <= call.end => styles[q + 1] = "Comment"

\* C30: a comment opened by the begin token of index i is closed by the end
\* token of index i only; the end token of another pair inside it is styled
\* Comment and leaves it open, on the line that opens the comment and on the
\* lines it continues on
C30_PairedByIndex ==
    (call.valid /\ ~call.error) =>
        \A i \in 1..Len(call.trace) :
            \A idx \in 0..(Len(language_.commentBeginL) - 1) :
                CommentStepOf(i, idx) => ClosedByOwnEnd(i, idx) /\ CommentThrough(i)

\* a continuation line of a comment of pair 1 that holds the end token of
\* pair 0 and leaves the comment open
C30_Witness ==
    /\ call.valid /\ ~call.error
    /\ call.line = 1
    /\ call.idx0 = 1
    /\ LineText(text, 1) = <<"*", "/", NL>>
    /\ call.ret
    /\ curr_comment_idx_ = 1

\* the line that opens a comment of pair 0 holds the end token of pair 1
C30_WitnessOpening ==
    /\ call.valid /\ ~call.error
    /\ LineText(text, call.line) = <<"/", "*", "+", "/", NL>>
    /\ call.state0 = "Unknown"
    /\ call.ret
    /\ curr_comment_idx_ = 0

----------------------------------------------------------------------------
(* Properties of the line records *)

\* C31: a doStyling that starts on a line changes the fold increment and the
\* has-word flag of that line only and the comment index of that line and of
\* the next; the record of every other line is as the call found it, also
\* when the range has several lines
C31_TwoLinesChanged ==
    call.valid =>
        /\ \A l \in DOMAIN lines_ :
              l \notin {call.line, call.line + 1} => lines_[l] = call.pre[l]
        /\ lines_[call.line + 1].fold_increment = call.pre[call.line + 1].fold_increment
        /\ lines_[call.line + 1].has_word = call.pre[call.line + 1].has_word

\* a call over two lines with a delimiter on the second: the increment is on
\* the starting line, and of the record of the second line only the comment
\* index an earlier call left there is changed
C31_Witness ==
    /\ call.valid
    /\ call.line = 0
    /\ LineFromPosition(text, call.end) = 1
    /\ GetCharAt(text, call.end) = "{"
    /\ lines_[0].fold_increment = 1
    /\ lines_[1].fold_increment = 0
    /\ call.pre[1].comment_idx = 0
    /\ lines_[1].comment_idx = -1

\* C32: after doStyling of a line its has-word flag is true exactly when the
\* line has a word, an operator, a string or a char literal outside comments
\* or, with comment folding, a block comment that opens; whitespace, Default
\* characters, line comments and the text of a continued comment give false
C32_HasWord ==
    (call.valid /\ ~call.error) =>
        lines_[call.line].has_word =
            (BlocksOfCall.tokens \/ (fold_comments_ /\ BlocksOfCall.opens > 0))

\* without comment folding, a line that is the text of a continued comment,
\* closes it and has nothing after: no word
C32_Witness ==
    /\ call.valid /\ ~call.error
    /\ ~fold_comments_
    /\ call.state0 = "Comment"
    /\ LineText(text, call.line) = <<"a", "*", "/", NL>>
    /\ ~lines_[call.line].has_word

\* with comment folding, a line with nothing but a block comment that stays
\* open has a word
C32_WitnessComment ==
    /\ call.valid /\ ~call.error
    /\ fold_comments_
    /\ LineText(text, call.line) = <<"/", "*", NL>>
    /\ call.state0 = "Unknown"
    /\ lines_[call.line].has_word

----------------------------------------------------------------------------
(* Properties of isFunction *)

\* the text the last isFunction call was asked about
QueryText == GetTextRange(text, query.start_pos, query.end_pos)

\* the key addWord stores a word under
AddWordKey(word) == IF language_.caseSensitive THEN word ELSE lower(word)

\* C33: the base isFunction returns true exactly when the text of the range,
\* under the case rule of addWord, is in the word table with style Function
C33_IsFunctionByAddWordRule ==
    (query.valid /\ ~zscript) =>
        query.ret = (wordStyle(word_list_, AddWordKey(QueryText)) = "Function")

\* what the code does: the text is lower-cased where the language has case
C33_IsFunctionInverted ==
    (query.valid /\ ~zscript) =>
        query.ret = (wordStyle(word_list_, isFunctionWord(language_, QueryText)) = "Function")

----------------------------------------------------------------------------
(* Properties of comment recognition *)

RECURSIVE CommentStarts(_, _, _, _, _)
\* the positions of the range from p to end where a comment token stands
\* outside strings, char literals and block comments, by the lexical structure
\* alone; in is "code", "string", "char" or "comment" (of pair idx)
CommentStarts(p, end, in, idx, at) ==
    LET c == GetCharAt(text, p)
        i == checkTokenL(text, p, language_.commentBeginL)
    IN
    IF p > end THEN at
    ELSE IF in = "string"
    THEN CommentStarts(p + 1, end, IF c = DQUOTE THEN "code" ELSE in, idx, at)
    ELSE IF in = "char"
    THEN CommentStarts(p + 1, end, IF c = SQUOTE THEN "code" ELSE in, idx, at)
    ELSE IF in = "comment"
    THEN IF checkToken(text, p, language_.commentEndL[idx + 1])
         THEN CommentStarts(p + Len(language_.commentEndL[idx + 1]), end, "code", -1, at)
         ELSE CommentStarts(p + 1, end, in, idx, at)
    ELSE IF c = DQUOTE THEN CommentStarts(p + 1, end, "string", idx, at)
    ELSE IF c = SQUOTE THEN CommentStarts(p + 1, end, "char", idx, at)
    ELSE IF i >= 0
    THEN CommentStarts(p + Len(language_.commentBeginL[i + 1]), end, "comment", i,
                       at \cup {p})
    ELSE IF \/ checkToken(text, p, language_.docComment)
            \/ checkTokenL(text, p, language_.lineCommentL) >= 0
    THEN at \cup {p}
    ELSE CommentStarts(p + 1, end, in, idx, at)

\* the same for the range of the call, entered as the call was
CommentStartsOfCall ==
    CommentStarts(call.from, call.end,
                  IF call.state0 = "Comment" THEN "comment" ELSE "code", call.idx0, {})

\* a run of a comment style starts at position p
CommentRunAt(p) ==
    \E i \in 1..Len(call.runs) :
        /\ RunStart(i) = p
        /\ call.runs[i][1] > 0
        /\ call.runs[i][2] \in {"Comment", "CommentDoc"}

\* C34: wherever a line-comment, doc-comment or block-comment begin token
\* stands outside a string, a char literal and a block comment, a comment run
\* starts, whatever the token before it is, an operator included
C34_CommentAfterAnyToken ==
    (call.valid /\ ~call.error) =>
        \A p \in CommentStartsOfCall : CommentRunAt(p)

\* the same for the tokens that do not follow an operator character
C34_CommentAfterNonOperator ==
    (call.valid /\ ~call.error) =>
        \A p \in CommentStartsOfCall :
            (p = call.from \/ GetCharAt(text, p - 1) \notin operator_chars_) =>
                CommentRunAt(p)

----------------------------------------------------------------------------
(* Properties of restarting updateFolding *)

\* C35: an updateFolding(s) that follows updateFolding(0), the line records
\* being the same, leaves the fold level and the header flag of every line as
\* they were
C35_RestartKeepsLevels ==
    [][(folding.valid /\ folding.line_start = 0 /\ folding' # folding) =>
          fold_levels' = fold_levels]_vars

\* the same for a restart at a line that holds the level updateFolding(0) came
\* to it with
C35_RestartFromOwnLevel ==
    [][(/\ folding.valid
        /\ folding.line_start = 0
        /\ folding' # folding
        /\ fold_levels[folding'.line_start].level = LevelAt(folding'.line_start)) =>
          fold_levels' = fold_levels]_vars

\* line l raises the level and has no word: its header goes to line l - 1
HeaderMovedFrom(l) ==
    /\ l \in FoldedLines
    /\ Raises(l)
    /\ ~lines_[l].has_word

\* C36: after updateFolding the level of every line it went over is the clamped
\* running sum of the increments of the lines before it, the lines included
\* that received the header of the line after them
C36_LevelIsRunningSum ==
    folding.valid =>
        \A l \in FoldedLines : fold_levels[l].level = LevelAt(l)

\* the same for the lines that neither move their header up nor receive one
C36_LevelIsRunningSumElsewhere ==
    folding.valid =>
        \A l \in FoldedLines :
            (~HeaderMovedFrom(l) /\ ~HeaderMovedFrom(l + 1)) =>
                fold_levels[l].level = LevelAt(l)

\* C37: every SetFoldLevel call of updateFolding is for a line of the text
C37_WritesExistingLines ==
    folding.valid =>
        \A w \in Writes : w.line \in 0..(GetLineCount(text) - 1)

\* the same for the calls made at a line after line 0
C37_WritesExistingLinesAfterFirst ==
    folding.valid =>
        \A w \in Writes : w.at > 0 => w.line \in 0..(GetLineCount(text) - 1)

----------------------------------------------------------------------------
(* Properties of the end-token read of processComment *)

\* curr_comment_idx_ as the i-th step of the call, a processComment, was
\* entered with: the id the call started with, or the index of the begin token
\* the processUnknown step before it found
CommentIdAt(i) ==
    IF i = 1 THEN call.idx0
    ELSE checkTokenL(text, call.trace[i - 1][2], language_.commentBeginL)

\* the end-token read of the i-th step is defined
ReadDefinedAt(i) ==
    /\ ~language_.null
    /\ CommentIdAt(i) \in 0..(Len(language_.commentEndL) - 1)

ReadsDefined ==
    \A i \in 1..Len(call.trace) : call.trace[i][1] = "Comment" => ReadDefinedAt(i)

\* C38: whenever processComment reads the end token of the active continuation
\* id, a language is set and the id is an index of its end-token list, whatever
\* doStyling and loadLanguage calls came before
C38_EndTokenReadDefined ==
    [][call' # call => ReadsDefined']_vars

\* the same for the processComment steps entered from processUnknown within
\* the call
C38_EndTokenReadDefinedWithinCall ==
    [][call' # call =>
          (\A i \in 2..Len(call.trace) :
               call.trace[i][1] = "Comment" => ReadDefinedAt(i))']_vars

----------------------------------------------------------------------------
(* Properties of ZScriptLexer::isFunction against ZScriptLexer::styleWord *)

\* the positions p .. q, a word of the call, were styled as a function
StyledFunction(p, q) == \A k \in p..q : styles[k + 1] = "Function"

\* ZScriptLexer::isFunction for the word at p .. q
IsFunctionAfter(p, q) == ZScriptLexer_isFunction(Lx, text, p, q + 1).ret

\* C39: a word of a styled range is styled Function by ZScriptLexer::styleWord
\* if and only if ZScriptLexer::isFunction is true for its start and end, also
\* when the '(' or the whitespace before it is at or after the end of the range
C39_StyleWordAgreesWithIsFunction ==
    (zscript /\ call.valid) =>
        \A p \in Positions : \A q \in Positions :
            WordInCall(p, q) => (StyledFunction(p, q) <=> IsFunctionAfter(p, q))

\* the same for the words followed within the range by a character that is no
\* whitespace
C39_AgreesWithinRange ==
    (zscript /\ call.valid) =>
        \A p \in Positions : \A q \in Positions :
            (/\ WordInCall(p, q)
             /\ \E k \in (q + 1)..call.end : GetCharAt(text, k) \notin whitespace_chars_) =>
                (StyledFunction(p, q) <=> IsFunctionAfter(p, q))

====
